---------------------------- MODULE Spec2Model ----------------------------
(***************************************************************************)
(* A model of the analytics core of zoidberg-running-coach                 *)
(* (src/src/zoidberg_coach/analysis.py and coaching.py).                   *)
(*                                                                         *)
(* The program is single threaded.  Every operation is a function of the   *)
(* activity list handed to it, of its scalar arguments and of the ambient  *)
(* date.today().  The state machine records one call at a time: the        *)
(* inputs (today, activities, args), the operation called (op) and the     *)
(* value it returned (result); requests is the log of the requests issued  *)
(* to Garmin Connect through garth (garmin_client.py).                     *)
(*                                                                         *)
(* Numbers.  Python floats are modelled as exact rationals <<n, d>> with   *)
(* d > 0 in lowest terms, except where the binary rounding of the double   *)
(* decides the outcome (the percentages of polarization_analysis), where   *)
(* the IEEE-754 double operations are computed bit for bit.  A date object *)
(* is its proleptic Gregorian ordinal (date.toordinal()); a date string is *)
(* a record of the fields of its first ten characters plus the rest.       *)
(***************************************************************************)
EXTENDS Integers, Sequences, FiniteSets, TLC

VARIABLES today, activities, op, args, result, requests

vars == <<today, activities, op, args, result, requests>>

---------------------------------------------------------------------------
(* Bounds of the model.                                                    *)

\* longest activity list handed to weekly_summary
MaxActs == 3
\* largest number of weeks asked of weekly_summary
MaxWeeks == 3
\* longest list of summaries handed to training_load_trend
MaxSummaries == 3
\* longest activity list handed to polarization_analysis
MaxPolarActs == 3
\* largest number of weeks asked of polarization_analysis
MaxPolarWeeks == 2

---------------------------------------------------------------------------
(* Exact rational arithmetic for Python floats.                            *)

Abs(x) == IF x < 0 THEN -x ELSE x

RECURSIVE Gcd(_, _)
Gcd(a, b) == IF b = 0 THEN a ELSE Gcd(b, a % b)

\* the rational n/d in lowest terms with a positive denominator
Rat(n, d) ==
    LET s == IF d < 0 THEN -1 ELSE 1
        g == Gcd(Abs(n), Abs(d))
    IN  <<(s * n) \div g, (s * d) \div g>>

RInt(i) == <<i, 1>>
RAdd(a, b) == Rat(a[1] * b[2] + b[1] * a[2], a[2] * b[2])
RSub(a, b) == Rat(a[1] * b[2] - b[1] * a[2], a[2] * b[2])
RMul(a, b) ==
    LET g1 == Gcd(Abs(a[1]), b[2])
        g2 == Gcd(Abs(b[1]), a[2])
    IN  Rat((a[1] \div g1) * (b[1] \div g2), (a[2] \div g2) * (b[2] \div g1))
\* a / b for b # 0
RDiv(a, b) == RMul(a, Rat(b[2], b[1]))
RLt(a, b) == a[1] * b[2] < b[1] * a[2]
RLe(a, b) == a[1] * b[2] <= b[1] * a[2]
RMin(a, b) == IF RLt(b, a) THEN b ELSE a
RMax(a, b) == IF RLt(a, b) THEN b ELSE a

RECURSIVE RSum(_)
RSum(s) == IF s = <<>> THEN RInt(0) ELSE RAdd(Head(s), RSum(Tail(s)))

\* floor of a rational (\div rounds towards minus infinity for d > 0)
RFloor(a) == a[1] \div a[2]

\* Python round(x): to the nearest integer, ties to the even one
PyRound(a) ==
    LET f == RFloor(a)
        twice == 2 * (a[1] - f * a[2])
    IN  IF twice < a[2] THEN f
        ELSE IF twice > a[2] THEN f + 1
        ELSE IF f % 2 = 0 THEN f ELSE f + 1

\* Python round(x, 1), as the number of tenths of the result
PyRound1(a) == PyRound(RMul(a, RInt(10)))

---------------------------------------------------------------------------
(* IEEE-754 doubles, bit for bit, for the operations whose binary rounding *)
(* decides a result.  A positive double is [m, e]: m its 53 significand    *)
(* bits as five limbs, the leading 1 and four limbs of 13 bits, and e the  *)
(* exponent of the last bit, so that the value is m * 2^e.                 *)

RECURSIVE SumInt(_)
SumInt(s) == IF s = <<>> THEN 0 ELSE Head(s) + SumInt(Tail(s))

\* the bits of a limb and the base they make
LimbBits == 13
LimbBase == 2 ^ LimbBits
\* the limbs of a significand, and the weight (in bits) of limb i
NLimbs == 5
LimbWeight(i) == LimbBits * (NLimbs - i)

\* the number of binary digits of n > 0
BitLen(n) == CHOOSE k \in 1..30 : 2 ^ (k - 1) <= n /\ n < 2 ^ k

\* m + 1 (the leading limb takes the last carry)
LimbsInc(m) ==
    [i \in 1..Len(m) |->
        IF \A j \in (i + 1)..Len(m) : m[j] = LimbBase - 1
        THEN (IF i = 1 THEN m[i] + 1 ELSE (m[i] + 1) % LimbBase)
        ELSE m[i]]

\* m * c + carry for a small integer c (the leading limb is not reduced)
RECURSIVE LimbsMul(_, _, _)
LimbsMul(m, c, carry) ==
    IF Len(m) = 1 THEN <<m[1] * c + carry>>
    ELSE LET t == m[Len(m)] * c + carry
         IN  Append(LimbsMul(SubSeq(m, 1, Len(m) - 1), c, t \div LimbBase),
                    t % LimbBase)

\* floor(m / 2^f)
LimbsShift(m, f) ==
    SumInt([i \in 1..NLimbs |->
        LET w == LimbWeight(i)
        IN  IF w >= f THEN m[i] * 2 ^ (w - f)
            ELSE IF f - w >= 20 THEN 0
            ELSE m[i] \div 2 ^ (f - w)])

\* m % 2^p # 0
LimbsLowBits(m, p) ==
    \E i \in 1..NLimbs :
        LET w == LimbWeight(i)
        IN  IF p <= w THEN FALSE
            ELSE IF p - w >= 20 THEN m[i] # 0
            ELSE m[i] % 2 ^ (p - w) # 0

\* the double nearest to m * 2^e (ties to even), where the leading limb of m
\* holds up to 13 bits and sticky tells of a non-zero amount below m
FlRound(m, e, sticky) ==
    LET s     == BitLen(m[1]) - 1
        kept  == [i \in 1..NLimbs |->
                    IF i = 1 THEN m[1] \div 2 ^ s
                    ELSE (m[i - 1] % 2 ^ s) * 2 ^ (LimbBits - s) + m[i] \div 2 ^ s]
        drop  == m[NLimbs] % 2 ^ s
        half  == IF s = 0 THEN 1 ELSE 2 ^ (s - 1)
        up    == IF s = 0 THEN FALSE
                 ELSE \/ drop > half
                      \/ drop = half /\ (sticky \/ kept[NLimbs] % 2 = 1)
        r     == IF up THEN LimbsInc(kept) ELSE kept
    IN  IF r[1] = 2
        THEN [m |-> [i \in 1..NLimbs |-> IF i = 1 THEN 1 ELSE 0], e |-> e + s + 1]
        ELSE [m |-> r, e |-> e + s]

\* the double a / b for integers 0 < a <= b < 2^17
FlDiv(a, b) ==
    LET Ceil(k) == (b + 2 ^ k - 1) \div 2 ^ k
        z  == CHOOSE k \in 0..17 : a >= Ceil(k) /\ (k = 0 \/ a < Ceil(k - 1))
        r0 == a * 2 ^ z - b
        d1 == (r0 * LimbBase) \div b
        r1 == (r0 * LimbBase) % b
        d2 == (r1 * LimbBase) \div b
        r2 == (r1 * LimbBase) % b
        d3 == (r2 * LimbBase) \div b
        r3 == (r2 * LimbBase) % b
        d4 == (r3 * LimbBase) \div b
        r4 == (r3 * LimbBase) % b
        q  == <<1, d1, d2, d3, d4>>
        up == 2 * r4 > b \/ (2 * r4 = b /\ d4 % 2 = 1)
        r  == IF up THEN LimbsInc(q) ELSE q
        e  == 0 - (LimbBits * (NLimbs - 1)) - z
    IN  IF r[1] = 2
        THEN [m |-> [i \in 1..NLimbs |-> IF i = 1 THEN 1 ELSE 0], e |-> e + 1]
        ELSE [m |-> r, e |-> e]

\* the double x * c for an integer 0 < c < 2^13
FlMul(x, c) == FlRound(LimbsMul(x.m, c, 0), x.e, FALSE)

\* round(x, 1) of a double 0 < x < 2^40, as a number of tenths: the exact
\* value of x is rounded to one decimal, ties to the even tenth
FlRound1(x) ==
    LET t     == LimbsMul(x.m, 10, 0)
        f     == 0 - x.e
        int   == LimbsShift(t, f)
        half  == LimbsShift(t, f - 1) % 2
        below == LimbsLowBits(t, f - 1)
    IN  IF half = 1 /\ (below \/ int % 2 = 1) THEN int + 1 ELSE int

---------------------------------------------------------------------------
(* Dates: datetime.date, strptime("%Y-%m-%d") and isoformat().             *)

IsLeap(y) == (y % 4 = 0) /\ ((y % 100 # 0) \/ (y % 400 = 0))

DaysInMonth(y, m) ==
    IF m = 2 THEN (IF IsLeap(y) THEN 29 ELSE 28)
    ELSE IF m \in {4, 6, 9, 11} THEN 30 ELSE 31

DaysBeforeYear(y) ==
    (y - 1) * 365 + ((y - 1) \div 4) - ((y - 1) \div 100) + ((y - 1) \div 400)

RECURSIVE DaysBeforeMonth(_, _)
DaysBeforeMonth(y, m) ==
    IF m <= 1 THEN 0 ELSE DaysBeforeMonth(y, m - 1) + DaysInMonth(y, m - 1)

\* date(y, m, d).toordinal()
ToOrdinal(y, m, d) == DaysBeforeYear(y) + DaysBeforeMonth(y, m) + d

\* the value that stands for "no date" (strptime raised, _parse_date gave None)
NoDate == -1

\* a date string: the fields of its first ten characters, and what follows
DateStr(y, m, d, rest) == [y |-> y, m |-> m, d |-> d, rest |-> rest]

\* datetime.strptime(str(date_str)[:10], "%Y-%m-%d").date(), NoDate on ValueError
Strptime(s) ==
    IF /\ s.y \in 1..9999
       /\ s.m \in 1..12
       /\ s.d >= 1
       /\ s.d <= DaysInMonth(s.y, s.m)
    THEN ToOrdinal(s.y, s.m, s.d)
    ELSE NoDate

\* date.fromordinal(n) followed by isoformat(): the year, month and day
IsoFormat(n) ==
    LET n0   == n - 1
        n400 == n0 \div 146097
        r400 == n0 % 146097
        n100 == r400 \div 36524
        r100 == r400 % 36524
        n4   == r100 \div 1461
        r4   == r100 % 1461
        n1   == r4 \div 365
        r1   == r4 % 365
        year == n400 * 400 + 1 + n100 * 100 + n4 * 4 + n1
    IN  IF n1 = 4 \/ n100 = 4
        THEN DateStr(year - 1, 12, 31, "")
        ELSE LET m0   == (r1 + 50) \div 32
                 prec == DaysBeforeMonth(year, m0)
                 mon  == IF prec > r1 THEN m0 - 1 ELSE m0
                 p    == DaysBeforeMonth(year, mon)
             IN  DateStr(year, mon, r1 - p + 1, "")

\* date.weekday(): Monday is 0
Weekday(n) == (n + 6) % 7

---------------------------------------------------------------------------
(* Strings: an activity type is the sequence of its characters.            *)

Upper == <<"A", "B", "C", "D", "E", "F", "G", "H", "I", "J", "K", "L", "M",
           "N", "O", "P", "Q", "R", "S", "T", "U", "V", "W", "X", "Y", "Z">>
Lower == <<"a", "b", "c", "d", "e", "f", "g", "h", "i", "j", "k", "l", "m",
           "n", "o", "p", "q", "r", "s", "t", "u", "v", "w", "x", "y", "z">>

\* str.lower() of one character
LowerChar(c) ==
    IF \E i \in 1..26 : Upper[i] = c
    THEN Lower[CHOOSE i \in 1..26 : Upper[i] = c]
    ELSE c

\* str.lower()
StrLower(t) == [i \in 1..Len(t) |-> LowerChar(t[i])]

\* the Python test  sub in t
Contains(t, sub) ==
    \E i \in 0..(Len(t) - Len(sub)) :
        \A j \in 1..Len(sub) : t[i + j] = sub[j]

RunWord == <<"r", "u", "n">>

---------------------------------------------------------------------------
(* analysis.py                                                             *)

\* METERS_PER_MILE = 1609.344
METERS_PER_MILE == Rat(1609344, 1000)

\* _is_running(activity)
IsRunning(a) == Contains(StrLower(a.type), RunWord)

\* mutant: the end of the range is excluded
InRange_EndExcluded(s, start, end) ==
    LET d == Strptime(s)
    IN  IF d = NoDate THEN FALSE ELSE start <= d /\ d < end

\* _in_range(date_str, start, end)
InRange(s, start, end) ==
    LET d == Strptime(s)
    IN  IF d = NoDate THEN FALSE ELSE start <= d /\ d <= end

\* mutant: the weeks are anchored on today instead of on its Monday
CurrentMonday_Today(t) == t

\* current_monday = today - timedelta(days=today.weekday())
CurrentMonday(t) == t - Weekday(t)

\* mutant: the weeks step back by 6 days, so neighbours share a day
WeekSummary_SixDayStride(acts, t, w) ==
    LET week_start == CurrentMonday(t) - 6 * w
        week_end   == week_start + 6
        InWeek(a)  == IsRunning(a) /\ InRange(a.date, week_start, week_end)
        week_activities == SelectSeq(acts, InWeek)
        total_meters  == RSum([i \in 1..Len(week_activities) |->
                                  week_activities[i].distance])
        total_seconds == SumInt([i \in 1..Len(week_activities) |->
                                  week_activities[i].duration])
    IN  [week_start         |-> IsoFormat(week_start),
         week_end           |-> IsoFormat(week_end),
         total_miles        |-> RDiv(total_meters, METERS_PER_MILE),
         total_time_seconds |-> total_seconds,
         run_count          |-> Len(week_activities)]

\* the body of the loop of weekly_summary for week w
WeekSummary(acts, t, w) ==
    LET week_start == CurrentMonday(t) - 7 * w
        week_end   == week_start + 6
        InWeek(a)  == IsRunning(a) /\ InRange(a.date, week_start, week_end)
        week_activities == SelectSeq(acts, InWeek)
        total_meters  == RSum([i \in 1..Len(week_activities) |->
                                  week_activities[i].distance])
        total_seconds == SumInt([i \in 1..Len(week_activities) |->
                                  week_activities[i].duration])
    IN  [week_start         |-> IsoFormat(week_start),
         week_end           |-> IsoFormat(week_end),
         total_miles        |-> RDiv(total_meters, METERS_PER_MILE),
         total_time_seconds |-> total_seconds,
         run_count          |-> Len(week_activities)]

\* weekly_summary(activities, weeks) with date.today() = t
weekly_summary(acts, weeks, t) ==
    [k \in 1..weeks |-> WeekSummary(acts, t, k - 1)]

\* round(x, 1): the float nearest to x rounded to one decimal
Round1(x) == Rat(PyRound1(x), 10)

\* mutant: the 10% rule flags an increase of exactly 10% too
Overload_AtLeast(increase) == RLe(RInt(10), increase)

\* entry["overload_flag"] = increase > 10
Overload(increase) == RLt(RInt(10), increase)

\* mutant: a week that follows a zero-mile week is flagged when it has miles
TrendEntry_FlagFromZero(summaries, i) ==
    LET week == summaries[i]
    IN  IF i + 1 <= Len(summaries) /\ RLt(RInt(0), summaries[i + 1].total_miles)
        THEN LET prev_miles == summaries[i + 1].total_miles
                 increase == RMul(RDiv(RSub(week.total_miles, prev_miles),
                                       prev_miles), RInt(100))
             IN  week @@ [mileage_increase_pct |-> Round1(increase),
                          overload_flag |-> Overload(increase)]
        ELSE week @@ [mileage_increase_pct |-> RInt(0),
                      overload_flag |-> i + 1 <= Len(summaries)
                                           /\ RLt(RInt(0), week.total_miles)]

\* the body of the loop of training_load_trend for entry i (1-based)
TrendEntry(summaries, i) ==
    LET week == summaries[i]
    IN  IF i + 1 <= Len(summaries) /\ RLt(RInt(0), summaries[i + 1].total_miles)
        THEN LET prev_miles == summaries[i + 1].total_miles
                 increase == RMul(RDiv(RSub(week.total_miles, prev_miles),
                                       prev_miles), RInt(100))
             IN  week @@ [mileage_increase_pct |-> Round1(increase),
                          overload_flag |-> Overload(increase)]
        ELSE week @@ [mileage_increase_pct |-> RInt(0),
                      overload_flag |-> FALSE]

\* mutant: the annotated entries are returned oldest week first
training_load_trend_OldestFirst(summaries) ==
    [i \in 1..Len(summaries) |-> TrendEntry(summaries, Len(summaries) + 1 - i)]

\* training_load_trend(summaries)
training_load_trend(summaries) ==
    [i \in 1..Len(summaries) |-> TrendEntry(summaries, i)]

\* DEFAULT_ZONE_BOUNDARY = 152
DEFAULT_ZONE_BOUNDARY == 152

\* round((part / total) * 100, 1) for the float sums of whole seconds part
\* and total > 0, as a number of tenths
PctTenths(part, total) ==
    IF part = 0 THEN 0 ELSE FlRound1(FlMul(FlDiv(part, total), 100))

\* the recommendations; the dash of the last one is an em dash in the source
RecNoHeartRate == "No heart rate data available for analysis."
RecGood == "Good polarization! Keep maintaining ~80% easy effort."
RecSlightly == "Slightly too much intensity. Try slowing down on easy days."
RecTooHard == "Too much hard running. Risk of overtraining - add more easy miles."

\* mutant: a run whose avg_hr equals the boundary counts as easy
polarization_analysis_BoundaryEasy(acts, weeks, zone_boundary_hr, t) ==
    LET cutoff == t - 7 * weeks
        Counted(a) == /\ IsRunning(a)
                      /\ InRange(a.date, cutoff, t)
                      /\ ~(a.avg_hr <= 0 \/ a.duration <= 0)
        Easy(a) == Counted(a) /\ a.avg_hr <= zone_boundary_hr
        Hard(a) == Counted(a) /\ ~(a.avg_hr <= zone_boundary_hr)
        easy_runs == SelectSeq(acts, Easy)
        hard_runs == SelectSeq(acts, Hard)
        easy_time == SumInt([i \in 1..Len(easy_runs) |-> easy_runs[i].duration])
        hard_time == SumInt([i \in 1..Len(hard_runs) |-> hard_runs[i].duration])
        total == easy_time + hard_time
    IN  IF total = 0
        THEN [weeks_analyzed |-> weeks,
              easy_pct |-> RInt(0),
              hard_pct |-> RInt(0),
              recommendation |-> RecNoHeartRate]
        ELSE LET easy_pct == Rat(PctTenths(easy_time, total), 10)
                 hard_pct == Rat(PctTenths(hard_time, total), 10)
             IN  [weeks_analyzed |-> weeks,
                  easy_pct |-> easy_pct,
                  hard_pct |-> hard_pct,
                  recommendation |->
                      IF RLe(RInt(75), easy_pct) THEN RecGood
                      ELSE IF RLe(RInt(60), easy_pct) THEN RecSlightly
                      ELSE RecTooHard]

\* polarization_analysis(activities, weeks, zone_boundary_hr), today = t
polarization_analysis(acts, weeks, zone_boundary_hr, t) ==
    LET cutoff == t - 7 * weeks
        Counted(a) == /\ IsRunning(a)
                      /\ InRange(a.date, cutoff, t)
                      /\ ~(a.avg_hr <= 0 \/ a.duration <= 0)
        Easy(a) == Counted(a) /\ a.avg_hr < zone_boundary_hr
        Hard(a) == Counted(a) /\ ~(a.avg_hr < zone_boundary_hr)
        easy_runs == SelectSeq(acts, Easy)
        hard_runs == SelectSeq(acts, Hard)
        easy_time == SumInt([i \in 1..Len(easy_runs) |-> easy_runs[i].duration])
        hard_time == SumInt([i \in 1..Len(hard_runs) |-> hard_runs[i].duration])
        total == easy_time + hard_time
    IN  IF total = 0
        THEN [weeks_analyzed |-> weeks,
              easy_pct |-> RInt(0),
              hard_pct |-> RInt(0),
              recommendation |-> RecNoHeartRate]
        ELSE LET easy_pct == Rat(PctTenths(easy_time, total), 10)
                 hard_pct == Rat(PctTenths(hard_time, total), 10)
             IN  [weeks_analyzed |-> weeks,
                  easy_pct |-> easy_pct,
                  hard_pct |-> hard_pct,
                  recommendation |->
                      IF RLe(RInt(75), easy_pct) THEN RecGood
                      ELSE IF RLe(RInt(60), easy_pct) THEN RecSlightly
                      ELSE RecTooHard]

---------------------------------------------------------------------------
(* Inputs of the model.                                                    *)

\* date.today(): the seven days Monday 2024-02-26 .. Sunday 2024-03-03
FirstToday == ToOrdinal(2024, 2, 26)
Todays == FirstToday..(FirstToday + 6)

TypeRunning == <<"r", "u", "n", "n", "i", "n", "g">>
TypeTrailRun == <<"T", "r", "a", "i", "l", "_", "R", "U", "N">>
TypeCycling == <<"c", "y", "c", "l", "i", "n", "g">>

Activity(type, date, distance, duration, avg_hr) ==
    [type |-> type, date |-> date, distance |-> distance,
     duration |-> duration, avg_hr |-> avg_hr]

\* the activities the upstream response of the summary command is made of
WeeklyActivities ==
    { Activity(TypeRunning, DateStr(2024, 2, 29, ""), Rat(8000, 1), 2400, 140),
      Activity(TypeTrailRun, DateStr(2024, 3, 3, "T07:30:00"), Rat(16093, 1), 5400, 150),
      Activity(TypeRunning, DateStr(2024, 2, 25, ""), Rat(482803, 100), 1500, 0),
      Activity(TypeRunning, DateStr(2024, 2, 12, ""), Rat(5000, 1), 1800, 160),
      Activity(TypeRunning, DateStr(2024, 2, 30, ""), Rat(5000, 1), 1800, 160),
      Activity(TypeCycling, DateStr(2024, 2, 29, ""), Rat(30000, 1), 3600, 120) }

---------------------------------------------------------------------------
(* The state machine of the summary command: fetch, then weekly_summary.   *)

NoArgs == [weeks |-> 0]
NoResult == <<>>

Init ==
    /\ today \in Todays
    /\ activities = <<>>
    /\ op = "fetch"
    /\ args = NoArgs
    /\ result = NoResult
    /\ requests = <<>>

\* one more activity of the upstream response is appended to the list
AddActivity ==
    /\ op = "fetch"
    /\ Len(activities) < MaxActs
    /\ \E a \in WeeklyActivities : activities' = Append(activities, a)
    /\ UNCHANGED <<today, op, args, result, requests>>

\* summaries = weekly_summary(all_activities, weeks=weeks)
WeeklySummary ==
    /\ op = "fetch"
    /\ \E w \in 1..MaxWeeks :
          /\ args' = [weeks |-> w]
          /\ result' = weekly_summary(activities, w, today)
    /\ op' = "weekly_summary"
    /\ UNCHANGED <<today, activities, requests>>

Next == AddActivity \/ WeeklySummary

Spec == Init /\ [][Next]_vars

---------------------------------------------------------------------------
(* C1.  weekly_summary(activities, W) returns exactly W summaries; the     *)
(* k-th (0-based) covers the Monday-to-Sunday week that starts k weeks     *)
(* before the Monday of the current week, so the entries are strictly      *)
(* most-recent-first; each has run_count >= 0, and a week with no matching *)
(* activity is present with run_count 0 and zero totals.                   *)

\* activity a counts for the week [ws, we]
Matches(a, ws, we) ==
    /\ IsRunning(a)
    /\ Strptime(a.date) # NoDate
    /\ ws <= Strptime(a.date)
    /\ Strptime(a.date) <= we

C1_WeeklySummaryWeeks ==
    op = "weekly_summary" =>
        /\ Len(result) = args.weeks
        /\ \A k \in 1..Len(result) :
              LET ws == Strptime(result[k].week_start)
                  we == Strptime(result[k].week_end)
              IN  /\ ws # NoDate
                  /\ Weekday(ws) = 0
                  /\ we = ws + 6
                  /\ (k = 1) => (ws <= today /\ today <= we)
                  /\ (k > 1) => (ws = Strptime(result[k - 1].week_start) - 7)
                  /\ result[k].run_count >= 0
                  /\ (\A i \in 1..Len(activities) : ~Matches(activities[i], ws, we))
                        => /\ result[k].run_count = 0
                           /\ result[k].total_miles = RInt(0)
                           /\ result[k].total_time_seconds = 0

\* a call on a day that is no Monday, with an empty week and a week with runs
C1_Witness ==
    /\ op = "weekly_summary"
    /\ Weekday(today) # 0
    /\ args.weeks >= 2
    /\ \E k \in 1..Len(result) : result[k].run_count = 0
    /\ \E k \in 1..Len(result) : result[k].run_count > 0

\* C17: in weekly_summary an activity contributes to a week's run_count,
\* distance and duration iff its type contains "run" case-insensitively and
\* its date (the first 10 characters parsed as YYYY-MM-DD) lies in
\* [week_start, week_end] inclusive; an activity whose date string does not
\* parse is counted in no week, and the summaries are returned all the same.
C17_CountedIffRunInWeek ==
    op = "weekly_summary" =>
        /\ Len(result) = args.weeks
        /\ \A k \in 1..Len(result) :
              LET ws == Strptime(result[k].week_start)
                  we == Strptime(result[k].week_end)
                  Counts(a) == /\ Contains(StrLower(a.type), RunWord)
                               /\ Strptime(a.date) # NoDate
                               /\ ws <= Strptime(a.date)
                               /\ Strptime(a.date) <= we
                  n == Len(activities)
                  seconds == SumInt([i \in 1..n |->
                                 IF Counts(activities[i])
                                 THEN activities[i].duration ELSE 0])
                  meters == RSum([i \in 1..n |->
                                 IF Counts(activities[i])
                                 THEN activities[i].distance ELSE RInt(0)])
              IN  /\ result[k].run_count =
                        Cardinality({i \in 1..n : Counts(activities[i])})
                  /\ result[k].total_time_seconds = seconds
                  /\ result[k].total_miles = RDiv(meters, METERS_PER_MILE)

\* a list of a run dated on the last day of a summarised week, a run whose
\* date does not parse and a ride inside the week: one run is counted
C17_Witness ==
    /\ op = "weekly_summary"
    /\ Len(activities) = 3
    /\ \E i \in 1..3 : IsRunning(activities[i]) /\ Strptime(activities[i].date) = NoDate
    /\ \E i \in 1..3 : ~IsRunning(activities[i])
    /\ \E i \in 1..3, k \in 1..Len(result) :
          /\ activities[i].type = TypeTrailRun
          /\ activities[i].date.rest # ""
          /\ Strptime(activities[i].date) = Strptime(result[k].week_end)
          /\ result[k].run_count = 1
          /\ result[k].total_time_seconds = activities[i].duration

\* C28: the W windows of weekly_summary are pairwise disjoint and contiguous
\* (week k starts the day after week k+1 ends), so every activity is counted
\* in at most one summary, and the sum of run_count over the summaries is
\* the number of run-type activities with a parseable date between the
\* oldest week_start and the Sunday of the current week inclusive; dates of
\* the current week later than today are counted.
C28_WindowsPartitionTheSpan ==
    op = "weekly_summary" =>
        LET W == Len(result)
            ws == [k \in 1..W |-> Strptime(result[k].week_start)]
            we == [k \in 1..W |-> Strptime(result[k].week_end)]
            n == Len(activities)
            sunday == CurrentMonday(today) + 6
        IN  /\ W = args.weeks
            /\ we[1] = sunday
            /\ \A k \in 1..W - 1 : ws[k] = we[k + 1] + 1
            /\ \A j, k \in 1..W : j < k => we[k] < ws[j]
            /\ \A i \in 1..n :
                  Cardinality({k \in 1..W :
                                  Matches(activities[i], ws[k], we[k])}) <= 1
            /\ SumInt([k \in 1..W |-> result[k].run_count])
                  = Cardinality({i \in 1..n :
                                    Matches(activities[i], ws[W], sunday)})

\* three summaries on a day before Sunday: the run of the coming Sunday is
\* counted in the current week and the run of the Sunday before in the next
C28_Witness ==
    /\ op = "weekly_summary"
    /\ args.weeks = 3
    /\ Weekday(today) < 6
    /\ Len(activities) = 3
    /\ \E i \in 1..3 : Strptime(activities[i].date) = CurrentMonday(today) + 6
    /\ \E i \in 1..3 : Strptime(activities[i].date) = CurrentMonday(today) - 1
    /\ ~ \E i \in 1..3 : IsRunning(activities[i]) /\ Strptime(activities[i].date) = NoDate
    /\ result[1].run_count = 1
    /\ result[2].run_count = 1
    /\ SumInt([k \in 1..3 |-> result[k].run_count]) = 2

---------------------------------------------------------------------------
(* The state machine of a call of training_load_trend: the summaries are   *)
(* drawn by Init, the call annotates them.                                 *)

\* the weekly mileages of the summaries, in thousandths of a mile:
\* 0, 15, 20, 22 (20 + 10%), 22.008 (20 + 10.04%), 22.012 (20 + 10.06%), 25
TrendMiles == {0, 15000, 20000, 22000, 22008, 22012, 25000}

\* a summary as weekly_summary builds it for the k-th week (1-based)
TrendSummary(k, thousandths) ==
    LET week_start == CurrentMonday(FirstToday) - 7 * (k - 1)
    IN  [week_start         |-> IsoFormat(week_start),
         week_end           |-> IsoFormat(week_start + 6),
         total_miles        |-> Rat(thousandths, 1000),
         total_time_seconds |-> 0,
         run_count          |-> IF thousandths = 0 THEN 0 ELSE 3]

TrendInputs ==
    UNION { { [k \in 1..n |-> TrendSummary(k, f[k])] : f \in [1..n -> TrendMiles] }
            : n \in 0..MaxSummaries }

InitTrend ==
    /\ today = FirstToday
    /\ activities = <<>>
    /\ op = "call"
    /\ args \in [summaries : TrendInputs]
    /\ result = NoResult
    /\ requests = <<>>

\* annotated = training_load_trend(summaries)
TrainingLoadTrend ==
    /\ op = "call"
    /\ result' = training_load_trend(args.summaries)
    /\ op' = "training_load_trend"
    /\ UNCHANGED <<today, activities, args, requests>>

NextTrend == TrainingLoadTrend

SpecTrend == InitTrend /\ [][NextTrend]_vars

---------------------------------------------------------------------------
(* C2.  In every entry returned by training_load_trend, overload_flag is   *)
(* true iff the entry's reported (one-decimal) mileage_increase_pct is     *)
(* greater than 10; an increase of exactly 10% gives overload_flag false.  *)
(* As stated the claim fails: the flag is computed from the unrounded      *)
(* increase, so an increase of 10.04% is flagged and reported as 10.0.     *)

C2_FlagIffReportedAbove10 ==
    op = "training_load_trend" =>
        \A i \in 1..Len(result) :
            result[i].overload_flag <=> RLt(RInt(10), result[i].mileage_increase_pct)

(* C2 as amended.  overload_flag is true iff an older entry with           *)
(* total_miles > 0 exists and this week's mileage is more than 1.1 times   *)
(* the older one (the unrounded increase exceeds 10%); exactly 10% gives   *)
(* false; a reported value above 10 implies the flag, and a flagged entry  *)
(* reports at least 10.0.                                                  *)
C2_FlagIffIncreaseAbove10 ==
    op = "training_load_trend" =>
        /\ Len(result) = Len(args.summaries)
        /\ \A i \in 1..Len(result) :
              LET cur == args.summaries[i].total_miles
                  older == i + 1 <= Len(args.summaries)
                  prev == IF older THEN args.summaries[i + 1].total_miles ELSE RInt(0)
              IN  /\ result[i].overload_flag <=>
                        (older /\ RLt(RInt(0), prev)
                               /\ RLt(RMul(Rat(11, 10), prev), cur))
                  /\ (older /\ RLt(RInt(0), prev) /\ cur = RMul(Rat(11, 10), prev))
                        => ~result[i].overload_flag
                  /\ RLt(RInt(10), result[i].mileage_increase_pct)
                        => result[i].overload_flag
                  /\ result[i].overload_flag
                        => RLe(RInt(10), result[i].mileage_increase_pct)

\* an entry that is flagged while it reports 10.0, above an unflagged one
C2_Witness ==
    /\ op = "training_load_trend"
    /\ \E i \in 1..Len(result) :
          result[i].overload_flag /\ result[i].mileage_increase_pct = RInt(10)
    /\ \E i \in 1..Len(result) :
          /\ i + 1 <= Len(result)
          /\ RLt(RInt(0), result[i + 1].total_miles)
          /\ ~result[i].overload_flag

\* C18: training_load_trend sets entry i's mileage_increase_pct to
\* (miles_i - miles_{i+1}) / miles_{i+1} x 100 rounded to one decimal (a
\* multiple of 0.1 at most 0.05 away) when entry i+1 exists and has
\* total_miles > 0; when there is no older entry or the older entry's
\* mileage is zero it sets mileage_increase_pct = 0.0 and overload_flag =
\* false, so a jump from a zero-mile week is never flagged.
C18_IncreaseOrZero ==
    op = "training_load_trend" =>
        /\ Len(result) = Len(args.summaries)
        /\ \A i \in 1..Len(result) :
              LET cur == args.summaries[i].total_miles
                  pct == result[i].mileage_increase_pct
              IN  IF i + 1 <= Len(args.summaries)
                     /\ RLt(RInt(0), args.summaries[i + 1].total_miles)
                  THEN LET prev == args.summaries[i + 1].total_miles
                           exact == RDiv(RMul(RSub(cur, prev), RInt(100)), prev)
                       IN  /\ 10 % pct[2] = 0
                           /\ RLe(RSub(exact, pct), Rat(1, 20))
                           /\ RLe(RSub(pct, exact), Rat(1, 20))
                  ELSE /\ pct = RInt(0)
                       /\ ~result[i].overload_flag

\* a week with miles after a zero-mile week, itself followed by a change
\* that is rounded: the first reports 0.0 unflagged
C18_Witness ==
    /\ op = "training_load_trend"
    /\ Len(result) = 3
    /\ RLt(RInt(0), args.summaries[2].total_miles)
    /\ args.summaries[3].total_miles = RInt(0)
    /\ result[2].mileage_increase_pct = RInt(0)
    /\ ~result[2].overload_flag
    /\ result[3].mileage_increase_pct = RInt(0)
    /\ RLt(RInt(0), result[1].mileage_increase_pct)
    /\ result[1].mileage_increase_pct #
          RDiv(RMul(RSub(args.summaries[1].total_miles,
                         args.summaries[2].total_miles), RInt(100)),
               args.summaries[2].total_miles)

---------------------------------------------------------------------------
(* The state machine of the polarization command: fetch, then              *)
(* polarization_analysis.                                                  *)

\* date.today(): Thursday 2024-02-29 and Saturday 2024-03-02
PolarTodays == {FirstToday + 3, FirstToday + 5}

\* the zone boundaries asked for: the default, and 160
PolarBoundaries == {DEFAULT_ZONE_BOUNDARY, 160}

\* easy and hard runs, a run at the default boundary, a run two weeks old,
\* runs without heart rate or duration, a ride, a run with a malformed date
PolarActivities ==
    { Activity(TypeRunning, DateStr(2024, 2, 28, ""), Rat(5000, 1), 1380, 130),
      Activity(TypeRunning, DateStr(2024, 2, 28, ""), Rat(10000, 1), 3420, 165),
      Activity(TypeTrailRun, DateStr(2024, 3, 1, ""), Rat(6000, 1), 1800, 152),
      Activity(TypeRunning, DateStr(2024, 2, 20, ""), Rat(8000, 1), 2400, 140),
      Activity(TypeRunning, DateStr(2024, 2, 28, ""), Rat(9000, 1), 3000, 0),
      Activity(TypeRunning, DateStr(2024, 2, 28, ""), Rat(0, 1), 0, 170),
      Activity(TypeCycling, DateStr(2024, 2, 28, ""), Rat(30000, 1), 3600, 170),
      Activity(TypeRunning, DateStr(2024, 2, 30, ""), Rat(5000, 1), 1800, 170) }

InitPolar ==
    /\ today \in PolarTodays
    /\ activities = <<>>
    /\ op = "fetch"
    /\ args = NoArgs
    /\ result = NoResult
    /\ requests = <<>>

AddPolarActivity ==
    /\ op = "fetch"
    /\ Len(activities) < MaxPolarActs
    /\ \E a \in PolarActivities : activities' = Append(activities, a)
    /\ UNCHANGED <<today, op, args, result, requests>>

\* result = polarization_analysis(all_activities, weeks, zone_boundary_hr)
Polarization ==
    /\ op = "fetch"
    /\ \E w \in 1..MaxPolarWeeks, z \in PolarBoundaries :
          /\ args' = [weeks |-> w, zone_boundary_hr |-> z]
          /\ result' = polarization_analysis(activities, w, z, today)
    /\ op' = "polarization_analysis"
    /\ UNCHANGED <<today, activities, requests>>

NextPolar == AddPolarActivity \/ Polarization

SpecPolar == InitPolar /\ [][NextPolar]_vars

---------------------------------------------------------------------------
(* C3.  For polarization_analysis, whenever at least one qualifying run    *)
(* exists (run type, date in the window, avg_hr > 0, duration > 0) the     *)
(* reported easy_pct + hard_pct equals exactly 100.0; when no qualifying   *)
(* run exists both are 0.0 and the recommendation is the no-heart-rate     *)
(* message, which is returned in no other case.                            *)
(* The code rounds the two percentages independently, and the double       *)
(* (easy / total) * 100 can fall just below a tie that its complement sits *)
(* on exactly: 1380 s easy and 3420 s hard give 28.7 and 71.2.             *)

\* activity a is a qualifying run of the call recorded in the state
Qualifies(a) ==
    /\ IsRunning(a)
    /\ Strptime(a.date) # NoDate
    /\ today - 7 * args.weeks <= Strptime(a.date)
    /\ Strptime(a.date) <= today
    /\ a.avg_hr > 0
    /\ a.duration > 0

SomeQualifies == \E i \in 1..Len(activities) : Qualifies(activities[i])

C3_PercentagesSumTo100 ==
    op = "polarization_analysis" =>
        /\ SomeQualifies =>
              RAdd(result.easy_pct, result.hard_pct) = RInt(100)
        /\ ~SomeQualifies =>
              /\ result.easy_pct = RInt(0)
              /\ result.hard_pct = RInt(0)
              /\ result.recommendation = RecNoHeartRate
        /\ result.recommendation = RecNoHeartRate => ~SomeQualifies

\* C19: polarization_analysis adds a run's whole duration to easy time iff
\* its avg_hr is strictly below the zone boundary and to hard time iff its
\* avg_hr is at or above it; runs with avg_hr <= 0 or duration <= 0, non-run
\* activities and runs dated outside [today - weeks, today] add to neither.
\* The totals show in the result as the percentages: each is the one-decimal
\* rounding of its total's share, and both are 0.0 when the totals are zero.
C19_EasyBelowBoundary ==
    op = "polarization_analysis" =>
        LET n == Len(activities)
            Counted(a) == /\ Contains(StrLower(a.type), RunWord)
                          /\ Strptime(a.date) # NoDate
                          /\ today - 7 * args.weeks <= Strptime(a.date)
                          /\ Strptime(a.date) <= today
                          /\ a.avg_hr > 0
                          /\ a.duration > 0
            easy == SumInt([i \in 1..n |->
                       IF Counted(activities[i])
                          /\ activities[i].avg_hr < args.zone_boundary_hr
                       THEN activities[i].duration ELSE 0])
            hard == SumInt([i \in 1..n |->
                       IF Counted(activities[i])
                          /\ activities[i].avg_hr >= args.zone_boundary_hr
                       THEN activities[i].duration ELSE 0])
            Near(pct, part) ==
                /\ 10 % pct[2] = 0
                /\ RLe(RSub(Rat(100 * part, easy + hard), pct), Rat(1, 20))
                /\ RLe(RSub(pct, Rat(100 * part, easy + hard)), Rat(1, 20))
        IN  IF easy + hard = 0
            THEN result.easy_pct = RInt(0) /\ result.hard_pct = RInt(0)
            ELSE Near(result.easy_pct, easy) /\ Near(result.hard_pct, hard)

\* a run at the boundary, a run below it and a run without heart rate, all
\* in the window: the run at the boundary is the hard share
C19_Witness ==
    /\ op = "polarization_analysis"
    /\ Len(activities) = 3
    /\ activities[1].avg_hr = args.zone_boundary_hr
    /\ Strptime(activities[1].date) <= today
    /\ activities[2].avg_hr = 130
    /\ activities[3].avg_hr = 0
    /\ result.easy_pct = Rat(434, 10)
    /\ result.hard_pct = Rat(566, 10)

-----------------------------------------------------------------------------
(* coaching.py: readiness_score.  The inputs and the four components are     *)
(* rationals; the input sets below hold values on which every component is a *)
(* multiple of 1/4 and no sum is a rounding tie, so that the double          *)
(* arithmetic of the source and the exact arithmetic here give the same      *)
(* score and the same one-decimal components.                                *)

\* coaching.py:24  min(sleep_score, 100) * 0.30
SleepComponent(sleep_score) == RMul(RMin(sleep_score, RInt(100)), Rat(30, 100))

\* coaching.py:27-31  the ratio to the weekly average, capped at 1.5; neutral
\* 15.0 without a positive baseline
HrvComponent(hrv_last_night, hrv_weekly_avg) ==
    IF RLt(RInt(0), hrv_weekly_avg)
    THEN LET hrv_ratio == RDiv(hrv_last_night, hrv_weekly_avg)
         IN  RMul(RMul(RDiv(RMin(hrv_ratio, Rat(3, 2)), Rat(3, 2)), RInt(100)),
                  Rat(30, 100))
    ELSE RInt(15)

\* coaching.py:34  min(body_battery, 100) * 0.20
BbComponent(body_battery) == RMul(RMin(body_battery, RInt(100)), Rat(20, 100))

\* a fatigue score that grows with the load ratio
FatigueScore_Direct(load_ratio) ==
    RMax(RInt(0), RMin(RInt(100), RMul(RDiv(load_ratio, RInt(2)), RInt(100))))

\* coaching.py:39  max(0, min(100, (2.0 - load_ratio) / 2.0 * 100))
FatigueScore(load_ratio) ==
    RMax(RInt(0),
         RMin(RInt(100), RMul(RDiv(RSub(RInt(2), load_ratio), RInt(2)), RInt(100))))

\* coaching.py:37-42
FatigueComponent(recent_load_miles, avg_weekly_miles) ==
    LET fatigue_score == IF RLt(RInt(0), avg_weekly_miles)
                         THEN FatigueScore(RDiv(recent_load_miles, avg_weekly_miles))
                         ELSE RInt(50)
    IN  RMul(fatigue_score, Rat(20, 100))

\* a score that is rounded but not clamped
ClampScore_None(rounded) == rounded

\* coaching.py:45  max(0, min(100, round(score)))
ClampScore(rounded) ==
    LET capped == IF rounded < 100 THEN rounded ELSE 100
    IN  IF capped > 0 THEN capped ELSE 0

InterpRest == "Rest day recommended"
InterpEasy == "Easy effort only"
InterpNormal == "Normal training"
InterpReady == "Ready for hard effort"

\* bands whose lower bounds are exclusive
Interpretation_Exclusive(score) ==
    IF score <= 50 THEN InterpRest
    ELSE IF score <= 70 THEN InterpEasy
    ELSE IF score <= 85 THEN InterpNormal
    ELSE InterpReady

\* coaching.py:47-54
Interpretation(score) ==
    IF score < 50 THEN InterpRest
    ELSE IF score < 70 THEN InterpEasy
    ELSE IF score < 85 THEN InterpNormal
    ELSE InterpReady

\* coaching.py:11-65  a is the record of the six keyword arguments
readiness_score(a) ==
    LET sleep_component == SleepComponent(a.sleep_score)
        hrv_component == HrvComponent(a.hrv_last_night, a.hrv_weekly_avg)
        bb_component == BbComponent(a.body_battery)
        fatigue_component ==
            FatigueComponent(a.recent_load_miles, a.avg_weekly_miles)
        total == RAdd(RAdd(RAdd(sleep_component, hrv_component), bb_component),
                      fatigue_component)
        score == ClampScore(PyRound(total))
    IN  [score |-> score,
         interpretation |-> Interpretation(score),
         components |-> [sleep |-> Round1(sleep_component),
                         hrv |-> Round1(hrv_component),
                         body_battery |-> Round1(bb_component),
                         fatigue |-> Round1(fatigue_component)]]

(* Inputs of readiness_score: Garmin's 0-100 scores and the HRV of last      *)
(* night range over a grid that goes below 0 and above 100; the baselines    *)
(* are absent (0), negative or present.                                      *)

\* the grid is -20, 0, 20, ..., 20 * (MaxGridStep - 1)
MaxGridStep == 7
GridStep == 20
GridValues == {RInt(GridStep * k - GridStep) : k \in 0..MaxGridStep}
HrvBaselines == {RInt(-10), RInt(0), RInt(50)}
LoadMiles == {RInt(-5), RInt(0), Rat(21, 2), RInt(20), RInt(50)}
MileBaselines == {RInt(0), RInt(20)}

ReadinessInputs ==
    [sleep_score : GridValues, hrv_last_night : GridValues,
     hrv_weekly_avg : HrvBaselines, body_battery : GridValues,
     recent_load_miles : LoadMiles, avg_weekly_miles : MileBaselines]

InitReadiness ==
    /\ today = FirstToday
    /\ activities = <<>>
    /\ op = "call"
    /\ args \in ReadinessInputs
    /\ result = NoResult
    /\ requests = <<>>

\* cli.py:317-324  today: one call of readiness_score
ReadinessScore ==
    /\ op = "call"
    /\ op' = "readiness_score"
    /\ result' = readiness_score(args)
    /\ UNCHANGED <<today, activities, args, requests>>

NextReadiness == ReadinessScore

SpecReadiness == InitReadiness /\ [][NextReadiness]_vars

\* C4: readiness_score returns a score in [0, 100] for every combination of
\* its six inputs, zero baselines, values above 100 and negative values
\* included.
C4_ScoreInRange ==
    op = "readiness_score" => result.score \in 0..100

\* a call with both baselines zero, a sleep score above 100 and a negative
\* body battery
C4_Witness ==
    /\ op = "readiness_score"
    /\ args.hrv_weekly_avg = RInt(0)
    /\ args.avg_weekly_miles = RInt(0)
    /\ RLt(RInt(100), args.sleep_score)
    /\ RLt(args.body_battery, RInt(0))
    /\ result.score \in 0..100

\* the arguments of the call with every recovery input at its maximum and no
\* recent load, the baselines unchanged
BestInputs ==
    [args EXCEPT !.sleep_score = RInt(100),
                 !.hrv_last_night = RMul(Rat(3, 2), RMax(args.hrv_weekly_avg, RInt(0))),
                 !.body_battery = RInt(100),
                 !.recent_load_miles = RInt(0)]

\* C5: readiness_score is monotone.  With the other inputs fixed, raising
\* sleep_score, body_battery or hrv_last_night (hrv_weekly_avg > 0) never
\* lowers the score and raising recent_load_miles (avg_weekly_miles > 0)
\* never raises it; hence the all-maximal recovery inputs with zero recent
\* load score at least as much as the call's own inputs, and 100 when both
\* baselines are present.
C5_Monotone ==
    op = "readiness_score" =>
        /\ \A s \in GridValues : RLe(args.sleep_score, s) =>
              readiness_score([args EXCEPT !.sleep_score = s]).score >= result.score
        /\ \A b \in GridValues : RLe(args.body_battery, b) =>
              readiness_score([args EXCEPT !.body_battery = b]).score >= result.score
        /\ RLt(RInt(0), args.hrv_weekly_avg) =>
              \A h \in GridValues : RLe(args.hrv_last_night, h) =>
                 readiness_score([args EXCEPT !.hrv_last_night = h]).score
                    >= result.score
        /\ RLt(RInt(0), args.avg_weekly_miles) =>
              \A l \in LoadMiles : RLe(args.recent_load_miles, l) =>
                 readiness_score([args EXCEPT !.recent_load_miles = l]).score
                    <= result.score
        /\ readiness_score(BestInputs).score >= result.score
        /\ (RLt(RInt(0), args.hrv_weekly_avg) /\ RLt(RInt(0), args.avg_weekly_miles))
              => readiness_score(BestInputs).score = 100

\* a call with both baselines present whose score rises strictly with more
\* sleep and falls strictly with more load
C5_Witness ==
    /\ op = "readiness_score"
    /\ RLt(RInt(0), args.hrv_weekly_avg)
    /\ RLt(RInt(0), args.avg_weekly_miles)
    /\ \E s \in GridValues :
          /\ RLt(args.sleep_score, s)
          /\ readiness_score([args EXCEPT !.sleep_score = s]).score > result.score
    /\ \E l \in LoadMiles :
          /\ RLt(args.recent_load_miles, l)
          /\ readiness_score([args EXCEPT !.recent_load_miles = l]).score
                < result.score

\* C6: the interpretation is a function of the final integer score only:
\* below 50 the rest-day text, 50 to 69 easy effort only, 70 to 84 normal
\* training, 85 and above ready for hard effort; the four bands are
\* exhaustive and mutually exclusive.
C6_InterpretationBands ==
    op = "readiness_score" =>
        /\ result.score < 50 <=> result.interpretation = "Rest day recommended"
        /\ (50 <= result.score /\ result.score < 70)
              <=> result.interpretation = "Easy effort only"
        /\ (70 <= result.score /\ result.score < 85)
              <=> result.interpretation = "Normal training"
        /\ result.score >= 85 <=> result.interpretation = "Ready for hard effort"
        /\ Cardinality({t \in {"Rest day recommended", "Easy effort only",
                               "Normal training", "Ready for hard effort"} :
                           t = result.interpretation}) = 1

\* a call whose score is exactly 70, the inclusive lower bound of a band
C6_Witness ==
    /\ op = "readiness_score"
    /\ result.score = 70
    /\ result.interpretation = "Normal training"

\* C20: for every combination of real inputs, in range or not,
\* readiness_score completes and each of the four reported components lies
\* within its allocation: sleep in [0, 30], hrv in [0, 30], body_battery in
\* [0, 20], fatigue in [0, 20].  As stated the claim fails: the components
\* are capped above only, so a negative sleep score, HRV or body battery
\* gives a negative component.
C20_ComponentsWithinAllocation ==
    op = "readiness_score" =>
        LET Within(x, top) == RLe(RInt(0), x) /\ RLe(x, RInt(top))
        IN  /\ Within(result.components.sleep, 30)
            /\ Within(result.components.hrv, 30)
            /\ Within(result.components.body_battery, 20)
            /\ Within(result.components.fatigue, 20)

-----------------------------------------------------------------------------
(* coaching.py: suggest_workout.  days_until_race is None or an integer; the *)
(* dash of two descriptions is an em dash in the source.                    *)

\* Python's None, and an integer argument that is set
None == <<>>
Some(n) == <<n>>

\* a rest gate that includes readiness 50
NeedsRest_AtMost(readiness) == readiness <= 50

\* coaching.py:75
NeedsRest(readiness) == readiness < 50

\* coaching.py:83
EasyOnly(readiness) == readiness < 70

\* a taper window that ends the day before 14 days out
InTaper_Under14(days_until_race) ==
    days_until_race # None /\ days_until_race[1] < 14

\* mutant: a race date that has passed is no taper
InTaper_Upcoming(days_until_race) ==
    days_until_race # None /\ days_until_race[1] >= 0 /\ days_until_race[1] <= 14

\* coaching.py:93
InTaper(days_until_race) ==
    days_until_race # None /\ days_until_race[1] <= 14

\* a tempo gate that needs more than 3 days since the last hard effort
TempoDue_After3(days_since_hard, readiness) ==
    days_since_hard > 3 /\ readiness >= 70

\* coaching.py:109
TempoDue(days_since_hard, readiness) ==
    days_since_hard >= 3 /\ readiness >= 70

\* coaching.py:84,110,119  round(max(lo, min(hi, minutes)))
BaseMinutes(minutes, lo, hi) == PyRound(RMax(RInt(lo), RMin(RInt(hi), minutes)))

Workout(type, description, duration_minutes, intensity) ==
    [type |-> type, description |-> description,
     duration_minutes |-> duration_minutes, intensity |-> intensity]

DescRest == "Rest day - your body needs recovery."
DescRecovery == "Easy recovery run. Keep heart rate in Zone 1-2."
DescShakeout == "Short shakeout run. Stay loose for race day."
DescTaper == "Taper period - easy effort, reduced volume."
DescTempo == "Tempo run or intervals. Push into Zone 3-4 for the main set."
DescStandard == "Standard easy run. Build aerobic base."

\* coaching.py:68-125  a is the record of the four keyword arguments
suggest_workout(a) ==
    IF NeedsRest(a.readiness)
    THEN Workout("rest", DescRest, 0, "none")
    ELSE IF EasyOnly(a.readiness)
    THEN Workout("easy_run", DescRecovery,
                 BaseMinutes(RMul(a.weekly_mileage, RInt(2)), 20, 45), "easy")
    ELSE IF InTaper(a.days_until_race)
    THEN IF a.days_until_race[1] <= 3
         THEN Workout("shakeout", DescShakeout, 20, "easy")
         ELSE Workout("easy_run", DescTaper, 30, "easy")
    ELSE IF TempoDue(a.days_since_hard, a.readiness)
    THEN Workout("tempo", DescTempo,
                 BaseMinutes(RMul(a.weekly_mileage, Rat(5, 2)), 30, 60),
                 "moderate-hard")
    ELSE Workout("easy_run", DescStandard,
                 BaseMinutes(RMul(a.weekly_mileage, RInt(2)), 30, 50), "easy")

(* Inputs of suggest_workout: readiness is a score of readiness_score; the   *)
(* weekly mileage runs over the quarter miles, on which the products by 2    *)
(* and by 2.5 are exact in double arithmetic.                                *)

\* the weekly mileage goes up to MaxMileageQuarters / 4 miles
MaxMileageQuarters == 124
ReadinessValues == {0, 30, 49, 50, 69, 70, 85, 100}
DaysSinceHard == {0, 2, 3, 7}
DaysUntilRace == {None} \cup {Some(n) : n \in {-1, 0, 3, 4, 14, 15, 30}}
WeeklyMileages == {Rat(q, 4) : q \in (-4)..MaxMileageQuarters}

WorkoutInputs ==
    [readiness : ReadinessValues, days_since_hard : DaysSinceHard,
     days_until_race : DaysUntilRace, weekly_mileage : WeeklyMileages]

InitWorkout ==
    /\ today = FirstToday
    /\ activities = <<>>
    /\ op = "call"
    /\ args \in WorkoutInputs
    /\ result = NoResult
    /\ requests = <<>>

\* cli.py:335-340  today: one call of suggest_workout
SuggestWorkout ==
    /\ op = "call"
    /\ op' = "suggest_workout"
    /\ result' = suggest_workout(args)
    /\ UNCHANGED <<today, activities, args, requests>>

NextWorkout == SuggestWorkout

SpecWorkout == InitWorkout /\ [][NextWorkout]_vars

\* C7: the readiness gates of suggest_workout win over everything else.
\* readiness < 50 returns rest with duration 0 and intensity none for every
\* days_since_hard, days_until_race and weekly_mileage; 50 <= readiness < 70
\* returns the recovery easy_run with duration round(clamp(2 x weekly_mileage,
\* 20, 45)), also when a race is 14 or fewer days away or days_since_hard >= 3.
C7_ReadinessGatesFirst ==
    op = "suggest_workout" =>
        /\ args.readiness < 50 =>
              /\ result.type = "rest"
              /\ result.duration_minutes = 0
              /\ result.intensity = "none"
        /\ (50 <= args.readiness /\ args.readiness < 70) =>
              /\ result.type = "easy_run"
              /\ result.description = DescRecovery
              /\ result.intensity = "easy"
              /\ result.duration_minutes =
                    PyRound(RMax(RInt(20),
                                 RMin(RInt(45), RMul(RInt(2), args.weekly_mileage))))

\* readiness 50, a race in 3 days, 7 days since the last hard effort and a
\* mileage whose doubled value 28.5 rounds to the even 28
C7_Witness ==
    /\ op = "suggest_workout"
    /\ args.readiness = 50
    /\ args.days_until_race = Some(3)
    /\ args.days_since_hard = 7
    /\ args.weekly_mileage = Rat(57, 4)
    /\ result.type = "easy_run"
    /\ result.duration_minutes = 28

\* C8: with readiness >= 70 and days_until_race set and <= 14, suggest_workout
\* returns shakeout with a fixed 20 minutes when days_until_race <= 3 and
\* otherwise the taper easy_run with a fixed 30 minutes, independent of
\* days_since_hard and weekly_mileage; tempo is never returned in this case.
C8_TaperBeforeTempo ==
    (/\ op = "suggest_workout"
     /\ args.readiness >= 70
     /\ args.days_until_race # None
     /\ args.days_until_race[1] <= 14) =>
        /\ result.type # "tempo"
        /\ result.intensity = "easy"
        /\ args.days_until_race[1] <= 3 =>
              /\ result.type = "shakeout"
              /\ result.duration_minutes = 20
        /\ args.days_until_race[1] > 3 =>
              /\ result.type = "easy_run"
              /\ result.description = DescTaper
              /\ result.duration_minutes = 30

\* a race exactly 14 days away with a tempo otherwise due and a mileage
\* whose easy-run duration would not be 30 minutes
C8_Witness ==
    /\ op = "suggest_workout"
    /\ args.readiness = 85
    /\ args.days_until_race = Some(14)
    /\ args.days_since_hard = 3
    /\ args.weekly_mileage = RInt(20)
    /\ result.type = "easy_run"
    /\ result.duration_minutes = 30

\* C9: suggest_workout returns tempo iff readiness >= 70, days_until_race is
\* unset or > 14, and days_since_hard >= 3, with duration
\* round(clamp(2.5 x weekly_mileage, 30, 60)) and intensity moderate-hard;
\* with readiness >= 70, no race within 14 days and days_since_hard < 3 it
\* returns the default easy_run with duration
\* round(clamp(2 x weekly_mileage, 30, 50)).
C9_TempoIffDue ==
    op = "suggest_workout" =>
        LET noRaceSoon == args.days_until_race = None
                             \/ args.days_until_race[1] > 14
        IN  /\ result.type = "tempo" <=>
                  (/\ args.readiness >= 70
                   /\ noRaceSoon
                   /\ args.days_since_hard >= 3)
            /\ result.type = "tempo" =>
                  /\ result.intensity = "moderate-hard"
                  /\ result.duration_minutes =
                        PyRound(RMax(RInt(30),
                                     RMin(RInt(60),
                                          RMul(Rat(5, 2), args.weekly_mileage))))
            /\ (args.readiness >= 70 /\ noRaceSoon /\ args.days_since_hard < 3) =>
                  /\ result.type = "easy_run"
                  /\ result.description = DescStandard
                  /\ result.intensity = "easy"
                  /\ result.duration_minutes =
                        PyRound(RMax(RInt(30),
                                     RMin(RInt(50),
                                          RMul(RInt(2), args.weekly_mileage))))

\* readiness exactly 70, exactly 3 days since the last hard effort, a race 15
\* days away and 13 miles a week: the tempo lasts round(32.5) = 32 minutes
C9_Witness ==
    /\ op = "suggest_workout"
    /\ args.readiness = 70
    /\ args.days_since_hard = 3
    /\ args.days_until_race = Some(15)
    /\ args.weekly_mileage = RInt(13)
    /\ result.type = "tempo"
    /\ result.duration_minutes = 32

-----------------------------------------------------------------------------
(* coaching.py: race_readiness.  The Riegel projection is kept as the term   *)
(* of its two operands under the final round(), the power 1.06 being no     *)
(* rational operation; the gap                                               *)
(* messages are kept as their text and the number formatted into them.       *)

\* coaching.py:224-229  _parse_date(date_str)
ParseDate(s) == Strptime(s)

\* the maximum of a non-empty finite set of rationals
RMaxOf(S) == CHOOSE m \in S : \A x \in S : RLe(x, m)

\* coaching.py:149  float(r.get("distance", 0)) / METERS_PER_MILE
Miles(r) == RDiv(r.distance, METERS_PER_MILE)

\* coaching.py:139-144  the runs of the last 8 weeks
RecentRuns(acts, t) ==
    LET cutoff == t - 7 * 8
        Recent(a) == /\ Contains(StrLower(a.type), RunWord)
                     /\ LET d == ParseDate(a.date)
                        IN  d # NoDate /\ d >= cutoff
    IN  SelectSeq(acts, Recent)

\* coaching.py:147-151  the loop starts from 0.0 and keeps the largest
LongestMiles(runs) ==
    RMaxOf({RInt(0)} \cup {Miles(runs[i]) : i \in 1..Len(runs)})

\* coaching.py:156-163  the mileage of the week that starts w + 1 weeks ago
WeekTotal(runs, t, w) ==
    LET week_start == t - 7 * (w + 1)
        week_end == week_start + 6
        InWeek(r) == LET d == ParseDate(r.date)
                     IN  d # NoDate /\ week_start <= d /\ d <= week_end
        in_week == SelectSeq(runs, InWeek)
    IN  RSum([i \in 1..Len(in_week) |-> Miles(in_week[i])])

\* coaching.py:154-166
AvgWeekly(runs, t) ==
    LET weekly_miles == [k \in 1..4 |-> WeekTotal(runs, t, k - 1)]
    IN  RDiv(RSum(weekly_miles), RInt(Len(weekly_miles)))

\* a comparison that keeps the run of the highest pace
Faster_Slower(pace, best) ==
    best = None \/ RLt(best[1].best_pace_per_mile, pace)

\* coaching.py:177  pace < best_pace_per_mile, which starts at infinity
Faster(pace, best) ==
    best = None \/ RLt(pace, best[1].best_pace_per_mile)

\* coaching.py:169-180  the loop over the runs: a run of at least 3 miles and
\* a positive duration replaces the best one when its pace is strictly lower
RECURSIVE BestEffort(_, _)
BestEffort(runs, best) ==
    IF runs = <<>>
    THEN best
    ELSE LET r == Head(runs)
             dist_miles == Miles(r)
             pace == RDiv(RInt(r.duration), dist_miles)
         IN  IF /\ RLe(RInt(3), dist_miles)
                /\ r.duration > 0
                /\ Faster(pace, best)
             THEN BestEffort(Tail(runs),
                             Some([best_pace_per_mile |-> pace,
                                   best_distance_miles |-> dist_miles,
                                   best_duration_seconds |-> r.duration]))
             ELSE BestEffort(Tail(runs), best)

\* coaching.py:185  the term duration * (13.1 / distance) ** 1.06
Riegel(duration_seconds, distance_miles) ==
    [riegel_duration |-> duration_seconds,
     riegel_distance_miles |-> distance_miles]

\* coaching.py:217  round(x) of a term x: the nearest whole number of seconds
RoundOf(term) == [round_of |-> term]

\* coaching.py:183-185,217  the rounded Riegel projection of the best run,
\* None when no run is eligible
PredictedFinish(runs) ==
    LET best == BestEffort(runs, None)
    IN  IF best = None
        THEN None
        ELSE Some(RoundOf(Riegel(best[1].best_duration_seconds,
                                 best[1].best_distance_miles)))

\* a gap list that reports the consistency gap first
Gaps_ConsistencyFirst(longest_miles, avg_weekly, run_count) ==
    (IF run_count < 12
     THEN <<[gap |-> "Inconsistent training", shown |-> RInt(run_count)]>>
     ELSE <<>>)
    \o (IF RLt(longest_miles, RInt(10))
        THEN <<[gap |-> "Need more long runs", shown |-> Round1(longest_miles)]>>
        ELSE <<>>)
    \o (IF RLt(avg_weekly, RInt(15))
        THEN <<[gap |-> "Weekly mileage too low", shown |-> Round1(avg_weekly)]>>
        ELSE <<>>)

\* coaching.py:188-194
Gaps(longest_miles, avg_weekly, run_count) ==
    (IF RLt(longest_miles, RInt(10))
     THEN <<[gap |-> "Need more long runs", shown |-> Round1(longest_miles)]>>
     ELSE <<>>)
    \o (IF RLt(avg_weekly, RInt(15))
        THEN <<[gap |-> "Weekly mileage too low", shown |-> Round1(avg_weekly)]>>
        ELSE <<>>)
    \o (IF run_count < 12
        THEN <<[gap |-> "Inconsistent training", shown |-> RInt(run_count)]>>
        ELSE <<>>)

\* a long run that must be longer than 10 miles
LongRunPoints_Above10(longest_miles) ==
    IF RLt(RInt(10), longest_miles) THEN 35
    ELSE IF RLe(RInt(8), longest_miles) THEN 20 ELSE 0

\* coaching.py:198-201
LongRunPoints(longest_miles) ==
    IF RLe(RInt(10), longest_miles) THEN 35
    ELSE IF RLe(RInt(8), longest_miles) THEN 20 ELSE 0

\* coaching.py:202-205
MileagePoints(avg_weekly) ==
    IF RLe(RInt(20), avg_weekly) THEN 35
    ELSE IF RLe(RInt(15), avg_weekly) THEN 20 ELSE 0

\* coaching.py:206-209
ConsistencyPoints(run_count) ==
    IF run_count >= 20 THEN 30 ELSE IF run_count >= 12 THEN 15 ELSE 0

\* coaching.py:128-221  race_readiness with date.today() = t
race_readiness(acts, target_date, goal_time_seconds, t) ==
    LET runs == RecentRuns(acts, t)
        longest_miles == LongestMiles(runs)
        avg_weekly == AvgWeekly(runs, t)
        score == LongRunPoints(longest_miles) + MileagePoints(avg_weekly)
                    + ConsistencyPoints(Len(runs))
    IN  [days_until_race |-> target_date - t,
         target_date |-> IsoFormat(target_date),
         longest_run_miles |-> Round1(longest_miles),
         avg_weekly_miles |-> Round1(avg_weekly),
         total_runs_8wk |-> Len(runs),
         predicted_finish_seconds |-> PredictedFinish(runs),
         readiness_score |-> IF score < 100 THEN score ELSE 100,
         gaps |-> Gaps(longest_miles, avg_weekly, Len(runs)),
         goal_time_seconds |-> goal_time_seconds]

(* Inputs of race_readiness: the response of get_activities(days=60), most   *)
(* recent activity first.  The 4-mile run of 3 days ago may repeat, the      *)
(* other kinds appear at most once; distances are whole miles in meters but  *)
(* for one of 9.96 miles.                                                    *)

\* a distance of n / d miles in meters
MilesToMeters(n, d) == RMul(Rat(n, d), METERS_PER_MILE)

RaceToday == FirstToday + 4

\* the ISO date string of the day `days` before today
DaysAgo(days) == IsoFormat(RaceToday - days)

\* the number of repeatable runs of a response
MaxBulkRuns == 20

\* the kinds of activity of a response, most recent first
RaceKinds ==
    << Activity(TypeRunning, DaysAgo(0), MilesToMeters(5, 1), 2400, 150),
       Activity(TypeRunning, DaysAgo(3), MilesToMeters(4, 1), 2400, 140),
       Activity(TypeTrailRun, [DaysAgo(10) EXCEPT !.rest = "T06:00:00"],
                MilesToMeters(12, 1), 6600, 155),
       Activity(TypeRunning, DaysAgo(20), MilesToMeters(10, 1), 6000, 150),
       Activity(TypeRunning, DaysAgo(28), MilesToMeters(996, 100), 0, 148),
       Activity(TypeRunning, DaysAgo(56), MilesToMeters(2, 1), 1200, 135),
       Activity(TypeRunning, DaysAgo(57), MilesToMeters(13, 1), 7000, 150),
       Activity(TypeCycling, DaysAgo(3), MilesToMeters(25, 1), 5400, 120),
       Activity(TypeRunning, DateStr(2024, 2, 30, ""), MilesToMeters(12, 1),
                6000, 150) >>

\* the kind that may repeat: the 4-mile run of 3 days ago
BulkKind == 2

KindOf(a) == CHOOSE k \in 1..Len(RaceKinds) : RaceKinds[k] = a

\* the target date and the goal time of a call
RaceCalls ==
    { [target_date |-> RaceToday + 30, goal_time_seconds |-> None],
      [target_date |-> RaceToday - 1, goal_time_seconds |-> Some(7200)] }

InitRace ==
    /\ today = RaceToday
    /\ activities = <<>>
    /\ op = "fetch"
    /\ args = NoArgs
    /\ result = NoResult
    /\ requests = <<>>

\* garmin_client.py:71-78  one more activity of the response
AddRaceActivity ==
    /\ op = "fetch"
    /\ LET last == IF activities = <<>> THEN 0
                   ELSE KindOf(activities[Len(activities)])
           bulk == Cardinality({i \in 1..Len(activities) :
                                   activities[i] = RaceKinds[BulkKind]})
       IN  \E k \in 1..Len(RaceKinds) :
              /\ IF k = BulkKind
                 THEN last <= k /\ bulk < MaxBulkRuns
                 ELSE last < k
              /\ activities' = Append(activities, RaceKinds[k])
    /\ UNCHANGED <<today, op, args, result, requests>>

\* cli.py:372-373  race-prep: one call of race_readiness
RaceReadiness ==
    /\ op = "fetch"
    /\ \E c \in RaceCalls :
          /\ args' = c
          /\ result' = race_readiness(activities, c.target_date,
                                      c.goal_time_seconds, today)
    /\ op' = "race_readiness"
    /\ UNCHANGED <<today, activities, requests>>

NextRace == AddRaceActivity \/ RaceReadiness

SpecRace == InitRace /\ [][NextRace]_vars

\* a run-type activity with a parseable date on or after today - 8 weeks
InRaceWindow(a) ==
    /\ IsRunning(a)
    /\ Strptime(a.date) # NoDate
    /\ Strptime(a.date) >= today - 56

\* some run of the 8-week window is at least n miles long
HasRunOfMiles(n) ==
    \E i \in 1..Len(activities) :
       /\ InRaceWindow(activities[i])
       /\ RLe(RInt(n), Miles(activities[i]))

\* the number of runs of the 8-week window
RunsInWindow ==
    Cardinality({i \in 1..Len(activities) : InRaceWindow(activities[i])})

\* a quarter of the mileage of the window's runs dated in the 28 days before
\* today
FourWeekAverage ==
    LET InLast4(a) == /\ InRaceWindow(a)
                      /\ today - 28 <= Strptime(a.date)
                      /\ Strptime(a.date) <= today - 1
        last4 == SelectSeq(activities, InLast4)
    IN  RDiv(RSum([i \in 1..Len(last4) |-> Miles(last4[i])]), RInt(4))

\* C10: the composite score of race_readiness is the sum of 35/20/0 points
\* for the longest run (>= 10 mi / >= 8 mi / below), 35/20/0 for the average
\* weekly mileage (>= 20 / >= 15 / below) and 30/15/0 for the run count
\* (>= 20 / >= 12 / below) and never exceeds 100; a history with a longest
\* run >= 10 mi, an average >= 20 mi/week and >= 20 runs scores exactly 100
\* and has an empty gap list.
C10_CompositeScore ==
    op = "race_readiness" =>
        LET avg == FourWeekAverage
            long_points == IF HasRunOfMiles(10) THEN 35
                           ELSE IF HasRunOfMiles(8) THEN 20 ELSE 0
            mileage_points == IF RLe(RInt(20), avg) THEN 35
                              ELSE IF RLe(RInt(15), avg) THEN 20 ELSE 0
            count_points == IF RunsInWindow >= 20 THEN 30
                            ELSE IF RunsInWindow >= 12 THEN 15 ELSE 0
        IN  /\ result.readiness_score = long_points + mileage_points + count_points
            /\ result.readiness_score <= 100
            /\ (HasRunOfMiles(10) /\ RLe(RInt(20), avg) /\ RunsInWindow >= 20) =>
                  /\ result.readiness_score = 100
                  /\ result.gaps = <<>>

\* a history of at least 20 runs whose longest run is exactly 10 miles, with
\* the full score and no gap
C10_Witness ==
    /\ op = "race_readiness"
    /\ result.total_runs_8wk >= 20
    /\ result.longest_run_miles = RInt(10)
    /\ LongestMiles(RecentRuns(activities, today)) = RInt(10)
    /\ result.readiness_score = 100
    /\ result.gaps = <<>>

\* the pace in seconds per mile of each listed activity that is a run of the
\* 8-week window of at least 3 miles and a positive duration, None for the
\* others
QualifyingPaces ==
    SubSeq([i \in 1..Len(activities) |->
               IF /\ InRaceWindow(activities[i])
                  /\ RLe(RInt(3), Miles(activities[i]))
                  /\ activities[i].duration > 0
               THEN Some(RDiv(RInt(activities[i].duration), Miles(activities[i])))
               ELSE None],
           1, Len(activities))

\* the qualifying runs whose pace no qualifying run beats
LowestPaceRuns ==
    LET paces == QualifyingPaces
        qualifying == {i \in 1..Len(paces) : paces[i] # None}
    IN  {i \in qualifying :
            \A j \in qualifying : RLe(paces[i][1], paces[j][1])}

\* C11 as stated: the predicted finish time is present iff some run of the
\* window has distance >= 3 miles and duration > 0, and when present it is
\* the Riegel projection duration x (13.1 / distance)^1.06 of the qualifying
\* run with the lowest pace.
C11_PredictedIsRiegel ==
    op = "race_readiness" =>
        LET lowest == LowestPaceRuns
        IN  /\ result.predicted_finish_seconds # None <=> lowest # {}
            /\ lowest # {} =>
                  \E i \in lowest :
                     result.predicted_finish_seconds =
                        Some(Riegel(activities[i].duration, Miles(activities[i])))

\* C11 (amended): the predicted finish time is present iff some run of the
\* window has distance >= 3 miles and duration > 0, and when present it is
\* the Riegel projection of the first listed qualifying run of the lowest
\* pace, rounded to the nearest whole second.
C11_PredictedIsRoundedRiegel ==
    op = "race_readiness" =>
        LET lowest == LowestPaceRuns
        IN  /\ result.predicted_finish_seconds # None <=> lowest # {}
            /\ lowest # {} =>
                  LET first == CHOOSE i \in lowest : \A j \in lowest : i <= j
                  IN  result.predicted_finish_seconds =
                         Some(RoundOf(Riegel(activities[first].duration,
                                             Miles(activities[first]))))

\* the 5-mile run in 2400 s is the best of several qualifying runs, two of
\* which tie on a slower pace, next to a long run without duration
C11_Witness ==
    /\ op = "race_readiness"
    /\ LET paces == QualifyingPaces
       IN  Cardinality({i \in 1..Len(paces) : paces[i] # None}) >= 4
    /\ \E i \in 1..Len(activities) :
          /\ InRaceWindow(activities[i])
          /\ RLe(RInt(3), Miles(activities[i]))
          /\ activities[i].duration = 0
    /\ result.predicted_finish_seconds = Some(RoundOf(Riegel(2400, RInt(5))))

-----------------------------------------------------------------------------
(* patterns.py: weekly_pattern_report.  An insight is the record of the      *)
(* fixed text of its message and of the values formatted into it.           *)

\* the names of the gaps of the result, in the order of the list
GapNames == [i \in 1..Len(result.gaps) |-> result.gaps[i].gap]

\* C22: the gap list of race_readiness holds, in this order and with no other
\* entry, the long-run gap iff the longest run of the window is below 10
\* miles, the mileage gap iff the average weekly mileage is below 15 and the
\* consistency gap iff the 8-week window has fewer than 12 runs.
C22_GapsInFixedOrder ==
    op = "race_readiness" =>
        GapNames = (IF ~HasRunOfMiles(10)
                    THEN <<"Need more long runs">> ELSE <<>>)
                   \o (IF RLt(FourWeekAverage, RInt(15))
                       THEN <<"Weekly mileage too low">> ELSE <<>>)
                   \o (IF RunsInWindow < 12
                       THEN <<"Inconsistent training">> ELSE <<>>)

\* a 12-mile run and a few short ones: the long-run gap is absent and the two
\* others are listed, mileage before consistency
C22_Witness ==
    /\ op = "race_readiness"
    /\ HasRunOfMiles(12)
    /\ RunsInWindow = 3
    /\ GapNames = <<"Weekly mileage too low", "Inconsistent training">>

\* a quarter of the mileage of the window's runs dated in the 4 Monday-anchored
\* weeks before the week of today
FullWeeksAverage ==
    LET monday == CurrentMonday(today)
        InFull4(a) == /\ InRaceWindow(a)
                      /\ monday - 28 <= Strptime(a.date)
                      /\ Strptime(a.date) <= monday - 1
        full4 == SelectSeq(activities, InFull4)
    IN  RDiv(RSum([i \in 1..Len(full4) |-> Miles(full4[i])]), RInt(4))

\* C23: avg_weekly_miles of race_readiness is the mean of the running mileage
\* of the last 4 full weeks, none of which is the current Monday-anchored
\* week: a run dated in the current week, today included, contributes
\* nothing.
C23_AverageOfFullCalendarWeeks ==
    op = "race_readiness" =>
        result.avg_weekly_miles = Round1(FullWeeksAverage)

\* a filter that keeps the runs of any date
GetRuns_NoCutoff(acts, weeks, t) ==
    LET Kept(a) == /\ Contains(StrLower(a.type), RunWord)
                   /\ Strptime(a.date) # NoDate
    IN  SelectSeq(acts, Kept)

\* patterns.py:44-57  _get_runs(activities, weeks) with date.today() = t
GetRuns(acts, weeks, t) ==
    LET cutoff == t - 7 * weeks
        Kept(a) == /\ Contains(StrLower(a.type), RunWord)
                   /\ LET d == Strptime(a.date)
                      IN  d # NoDate /\ d >= cutoff
    IN  SelectSeq(acts, Kept)

\* patterns.py:65
DayNames == <<"Monday", "Tuesday", "Wednesday", "Thursday", "Friday",
              "Saturday", "Sunday">>

\* patterns.py:75-78,136-140,191-194  a run has a pace when its distance and
\* its duration are positive
HasPace(r) == RLt(RInt(0), r.distance) /\ r.duration > 0

\* dur / (dist / METERS_PER_MILE)
PaceOf(r) == RDiv(RInt(r.duration), RDiv(r.distance, METERS_PER_MILE))

\* sum(p) / len(p) for a non-empty list of rationals
Mean(paces) == RDiv(RSum(paces), RInt(Len(paces)))

\* the least element of a non-empty set of integers
MinOf(S) == CHOOSE x \in S : \A y \in S : x <= y

MostOften(day, count) ==
    [text |-> "You run most often on {day}s ({count} runs).",
     day |-> day, count |-> count]

FastestDay(day, pace_mins, pace_secs) ==
    [text |-> "Your fastest runs tend to happen on {day}s (avg {m}:{ss}/mi).",
     day |-> day, pace_mins |-> pace_mins, pace_secs |-> pace_secs]

\* patterns.py:60-96  _day_of_week_patterns(runs).  A dict keeps its keys in
\* the order of their first insertion; max() and min() return the first of
\* the equal candidates in that order.
DayOfWeekPatterns(runs) ==
    LET n == Len(runs)
        wd == SubSeq([i \in 1..n |-> Weekday(Strptime(runs[i].date))], 1, n)
        days == {wd[i] : i \in 1..n}
        Count(d) == Cardinality({i \in 1..n : wd[i] = d})
        First(d) == MinOf({i \in 1..n : wd[i] = d})
        paced == {i \in 1..n : HasPace(runs[i])}
        OnDay(d) == {i \in paced : wd[i] = d}
        averaged == {d \in days : Cardinality(OnDay(d)) >= 2}
        AvgPace(d) ==
            LET OfDay(r) == HasPace(r) /\ Weekday(Strptime(r.date)) = d
                on_day == SelectSeq(runs, OfDay)
            IN  Mean([k \in 1..Len(on_day) |-> PaceOf(on_day[k])])
        most ==
            IF days = {} THEN <<>>
            ELSE LET fav_day == CHOOSE d \in days : \A e \in days :
                                   \/ Count(d) > Count(e)
                                   \/ Count(d) = Count(e) /\ First(d) <= First(e)
                 IN  IF Count(fav_day) >= 3
                     THEN <<MostOften(DayNames[fav_day + 1], Count(fav_day))>>
                     ELSE <<>>
        fastest ==
            IF averaged = {} THEN <<>>
            ELSE LET avg == [d \in averaged |-> AvgPace(d)]
                     fastest_day == CHOOSE d \in averaged : \A e \in averaged :
                                       \/ RLt(avg[d], avg[e])
                                       \/ /\ avg[d] = avg[e]
                                          /\ MinOf(OnDay(d)) <= MinOf(OnDay(e))
                     pace_mins == RFloor(RDiv(avg[fastest_day], RInt(60)))
                     pace_secs == RFloor(RSub(avg[fastest_day], RInt(60 * pace_mins)))
                 IN  <<FastestDay(DayNames[fastest_day + 1], pace_mins, pace_secs)>>
    IN  most \o fastest

LongRuns(count) ==
    [text |-> "You've done {count} long runs (8+ miles) recently - great half marathon prep.",
     count |-> count]

\* patterns.py:99-116  _distance_pace_patterns(runs)
DistancePacePatterns(runs) ==
    LET long_runs == {i \in 1..Len(runs) : RLe(RInt(8), Miles(runs[i]))}
    IN  IF Cardinality(long_runs) >= 2
        THEN <<LongRuns(Cardinality(long_runs))>>
        ELSE <<>>

GoodSleep(diff_secs) ==
    [text |-> "Your runs after good sleep (70+ score) are ~{diff_secs}s/mi faster.",
     diff_secs |-> diff_secs]

\* patterns.py:125,131-132  sleep_by_date.get(str(r.get("date", ""))[:10]):
\* the last sample of the run's date, None when there is none
SleepOf(r, sleep_data) ==
    LET run_date == [r.date EXCEPT !.rest = ""]
        same == {k \in 1..Len(sleep_data) : sleep_data[k].date = run_date}
    IN  IF same = {} THEN None
        ELSE Some(sleep_data[CHOOSE k \in same : \A j \in same : j <= k])

\* patterns.py:119-157  _sleep_performance_correlation(runs, sleep_data)
SleepPerformanceCorrelation(runs, sleep_data) ==
    LET Scored(r) == SleepOf(r, sleep_data) # None /\ HasPace(r)
        Good(r) == Scored(r) /\ SleepOf(r, sleep_data)[1].score >= 70
        Poor(r) == /\ Scored(r)
                   /\ SleepOf(r, sleep_data)[1].score < 70
                   /\ SleepOf(r, sleep_data)[1].score > 0
        good == SelectSeq(runs, Good)
        poor == SelectSeq(runs, Poor)
        good_sleep_paces == [k \in 1..Len(good) |-> PaceOf(good[k])]
        poor_sleep_paces == [k \in 1..Len(poor) |-> PaceOf(poor[k])]
    IN  IF Len(good) >= 2 /\ Len(poor) >= 2
        THEN LET avg_good == Mean(good_sleep_paces)
                 avg_poor == Mean(poor_sleep_paces)
             IN  IF RLt(avg_good, avg_poor)
                 THEN <<GoodSleep(RFloor(RSub(avg_poor, avg_good)))>>
                 ELSE <<>>
        ELSE <<>>

HrvBelowBaseline(low_count) ==
    [text |-> "HRV has been below baseline on {low_count} days - monitor for overreaching.",
     low_count |-> low_count]

\* patterns.py:170  h.get("last_night", 0) or h.get("weekly_avg", 0)
HrvSample(h) == IF h.last_night # 0 THEN h.last_night ELSE h.weekly_avg

\* patterns.py:160-178  _hrv_recovery_patterns(runs, hrv_data)
HrvRecoveryPatterns(runs, hrv_data) ==
    IF Len(hrv_data) < 3
    THEN <<>>
    ELSE LET avg_hrv == RDiv(RInt(SumInt([k \in 1..Len(hrv_data) |->
                                             HrvSample(hrv_data[k])])),
                             RInt(Len(hrv_data)))
             low_count == Cardinality({k \in 1..Len(hrv_data) :
                             RLt(RInt(hrv_data[k].last_night),
                                 RMul(avg_hrv, Rat(8, 10)))})
         IN  IF RLt(RInt(0), avg_hrv) /\ low_count >= 3
             THEN <<HrvBelowBaseline(low_count)>>
             ELSE <<>>

\* the order of two date strings of the same width: year, month and day, then
\* what follows (an empty rest sorts first)
DateStrLess(a, b) ==
    \/ a.y < b.y
    \/ a.y = b.y /\ a.m < b.m
    \/ a.y = b.y /\ a.m = b.m /\ a.d < b.d
    \/ a.y = b.y /\ a.m = b.m /\ a.d = b.d /\ a.rest = "" /\ b.rest # ""

\* patterns.py:190  sorted(runs, key=lambda x: x.get("date", "")): a stable
\* ascending sort
SortedByDate(runs) ==
    LET n == Len(runs)
        Rank(i) == 1 + Cardinality({j \in 1..n :
                          \/ DateStrLess(runs[j].date, runs[i].date)
                          \/ runs[j].date = runs[i].date /\ j < i})
    IN  [p \in 1..n |-> runs[CHOOSE i \in 1..n : Rank(i) = p]]

TrendingSlower ==
    [text |-> "Recent pace is trending slower - could indicate fatigue accumulation."]

\* patterns.py:181-204  _detect_overtraining_signals(runs, hrv_data)
DetectOvertrainingSignals(runs, hrv_data) ==
    LET sorted == SortedByDate(runs)
        n == Len(sorted)
        last10 == SubSeq(sorted, IF n > 10 THEN n - 9 ELSE 1, n)
        with_pace == SelectSeq(last10, HasPace)
        recent_paces == [k \in 1..Len(with_pace) |-> PaceOf(with_pace[k])]
        m == Len(with_pace)
    IN  IF m >= 6
        THEN LET first_half == RDiv(RSum(SubSeq(recent_paces, 1, 3)), RInt(3))
                 second_half == RDiv(RSum(SubSeq(recent_paces, m - 2, m)), RInt(3))
             IN  IF RLt(RMul(first_half, Rat(105, 100)), second_half)
                 THEN <<TrendingSlower>>
                 ELSE <<>>
        ELSE <<>>

NotEnoughRuns == [text |-> "Not enough running data for pattern analysis."]
KeepTraining ==
    [text |-> "Not enough data to detect clear patterns yet. Keep training!"]

\* the insights kept by the cap of patterns.py:41
MaxInsights == 7

\* a report that adds the fallback string to fewer than two insights
weekly_pattern_report_FallbackAppended(acts, sleep_data, hrv_data, weeks, t) ==
    LET runs == GetRuns(acts, weeks, t)
    IN  IF runs = <<>>
        THEN [insights |-> <<NotEnoughRuns>>, analyses |-> <<>>]
        ELSE LET found ==
                    DayOfWeekPatterns(runs)
                    \o DistancePacePatterns(runs)
                    \o (IF sleep_data # <<>>
                        THEN SleepPerformanceCorrelation(runs, sleep_data)
                        ELSE <<>>)
                    \o (IF hrv_data # <<>>
                        THEN HrvRecoveryPatterns(runs, hrv_data)
                        ELSE <<>>)
                    \o DetectOvertrainingSignals(runs, hrv_data)
                 insights == IF Len(found) < 2
                             THEN found \o <<KeepTraining>> ELSE found
             IN  [insights |-> SubSeq(insights, 1,
                                      IF Len(insights) < MaxInsights
                                      THEN Len(insights) ELSE MaxInsights),
                  analyses |->
                     <<"_day_of_week_patterns", "_distance_pace_patterns">>
                     \o (IF sleep_data # <<>>
                         THEN <<"_sleep_performance_correlation">> ELSE <<>>)
                     \o (IF hrv_data # <<>>
                         THEN <<"_hrv_recovery_patterns">> ELSE <<>>)
                     \o <<"_detect_overtraining_signals">>]

\* patterns.py:11-41  weekly_pattern_report with date.today() = t; analyses
\* lists the sub-analyses that were run, in the order of their calls
weekly_pattern_report(acts, sleep_data, hrv_data, weeks, t) ==
    LET runs == GetRuns(acts, weeks, t)
    IN  IF runs = <<>>
        THEN [insights |-> <<NotEnoughRuns>>, analyses |-> <<>>]
        ELSE LET found ==
                    DayOfWeekPatterns(runs)
                    \o DistancePacePatterns(runs)
                    \o (IF sleep_data # <<>>
                        THEN SleepPerformanceCorrelation(runs, sleep_data)
                        ELSE <<>>)
                    \o (IF hrv_data # <<>>
                        THEN HrvRecoveryPatterns(runs, hrv_data)
                        ELSE <<>>)
                    \o DetectOvertrainingSignals(runs, hrv_data)
                 insights == IF found = <<>> THEN <<KeepTraining>> ELSE found
             IN  [insights |-> SubSeq(insights, 1,
                                      IF Len(insights) < MaxInsights
                                      THEN Len(insights) ELSE MaxInsights),
                  analyses |->
                     <<"_day_of_week_patterns", "_distance_pace_patterns">>
                     \o (IF sleep_data # <<>>
                         THEN <<"_sleep_performance_correlation">> ELSE <<>>)
                     \o (IF hrv_data # <<>>
                         THEN <<"_hrv_recovery_patterns">> ELSE <<>>)
                     \o <<"_detect_overtraining_signals">>]

(* Inputs of weekly_pattern_report: the response of get_activities, most     *)
(* recent activity first, and the sleep and HRV samples of the patterns      *)
(* command.  The durations are chosen so that no pace is a whole number of   *)
(* seconds per mile.                                                         *)

PatternToday == FirstToday + 4

\* the ISO date string of the day `days` before today
PatternDaysAgo(days) == IsoFormat(PatternToday - days)

\* the number of activities of a response
MaxPatternActs == 7

\* the kinds of activity of a response, most recent first; a kind may repeat
PatternKinds ==
    << Activity(TypeRunning, PatternDaysAgo(1), MilesToMeters(5, 1), 3026, 150),
       Activity(TypeCycling, PatternDaysAgo(1), MilesToMeters(25, 1), 5400, 120),
       Activity(TypeTrailRun, [PatternDaysAgo(3) EXCEPT !.rest = "T06:00:00"],
                MilesToMeters(8, 1), 4004, 155),
       Activity(TypeRunning, PatternDaysAgo(8), MilesToMeters(10, 1), 4505, 150),
       Activity(TypeRunning, PatternDaysAgo(10), MilesToMeters(3, 1), 0, 148),
       Activity(TypeRunning, PatternDaysAgo(70), MilesToMeters(13, 1), 7000, 150),
       Activity(TypeRunning, DateStr(2024, 2, 30, ""), MilesToMeters(12, 1),
                6000, 150) >>

PatternKindOf(a) == CHOOSE k \in 1..Len(PatternKinds) : PatternKinds[k] = a

SleepSample(days, score) == [date |-> PatternDaysAgo(days), score |-> score]
HrvRecord(last_night, weekly_avg) ==
    [last_night |-> last_night, weekly_avg |-> weekly_avg]

\* poor sleep before the slow runs, good sleep before the fast ones
SleepGoodIsFaster ==
    <<SleepSample(1, 50), SleepSample(3, 0), SleepSample(8, 70)>>
\* the reverse; the first sample of yesterday is overwritten by the second
SleepGoodIsSlower ==
    <<SleepSample(1, 20), SleepSample(1, 80), SleepSample(8, 50)>>

HrvThreeLow ==
    <<HrvRecord(100, 60), HrvRecord(100, 60), HrvRecord(100, 60),
      HrvRecord(20, 60), HrvRecord(20, 60), HrvRecord(20, 60)>>
HrvTwoSamples == <<HrvRecord(50, 60), HrvRecord(20, 60)>>
HrvNoLastNight == <<HrvRecord(0, 60), HrvRecord(0, 60), HrvRecord(0, 60)>>

\* the arguments of a call next to the activities
PatternCalls ==
    [weeks : {1, 8},
     data : {[sleep_data |-> None, hrv_data |-> None],
             [sleep_data |-> SleepGoodIsFaster, hrv_data |-> HrvThreeLow],
             [sleep_data |-> SleepGoodIsSlower, hrv_data |-> HrvNoLastNight],
             [sleep_data |-> SleepGoodIsFaster, hrv_data |-> HrvTwoSamples]}]

InitPattern ==
    /\ today = PatternToday
    /\ activities = <<>>
    /\ op = "fetch"
    /\ args = NoArgs
    /\ result = NoResult
    /\ requests = <<>>

\* garmin_client.py:71-78  one more activity of the response
AddPatternActivity ==
    /\ op = "fetch"
    /\ Len(activities) < MaxPatternActs
    /\ LET last == IF activities = <<>> THEN 0
                   ELSE PatternKindOf(activities[Len(activities)])
       IN  \E k \in 1..Len(PatternKinds) :
              /\ last <= k
              /\ activities' = Append(activities, PatternKinds[k])
    /\ UNCHANGED <<today, op, args, result, requests>>

\* cli.py:409-420  patterns: one call of weekly_pattern_report
WeeklyPatternReport ==
    /\ op = "fetch"
    /\ \E c \in PatternCalls :
          /\ args' = c
          /\ result' = weekly_pattern_report(activities, c.data.sleep_data,
                                             c.data.hrv_data, c.weeks, today)
    /\ op' = "weekly_pattern_report"
    /\ UNCHANGED <<today, activities, requests>>

NextPattern == AddPatternActivity \/ WeeklyPatternReport

SpecPattern == InitPattern /\ [][NextPattern]_vars

\* some listed activity is a run-type activity with a parseable date on or
\* after today minus the weeks of the call
SomeRunInWeeks ==
    \E i \in 1..Len(activities) :
       /\ IsRunning(activities[i])
       /\ Strptime(activities[i].date) # NoDate
       /\ Strptime(activities[i].date) >= today - 7 * args.weeks

\* C12: weekly_pattern_report returns exactly one 'insufficient data' string,
\* without running any sub-analysis, when no run-type activity with a
\* parseable date falls in the trailing-weeks window; in every other case it
\* returns a non-empty list of at most 7 strings.
C12_InsufficientDataOrInsights ==
    op = "weekly_pattern_report" =>
        LET insufficient ==
               [text |-> "Not enough running data for pattern analysis."]
        IN  /\ ~SomeRunInWeeks =>
                  /\ result.insights = <<insufficient>>
                  /\ result.analyses = <<>>
            /\ SomeRunInWeeks =>
                  /\ Len(result.insights) \in 1..7
                  /\ \A k \in 1..Len(result.insights) :
                        result.insights[k] # insufficient
                  /\ Len(result.analyses) >= 3

\* a response of a ride, an old run and a run of a malformed date, analysed
\* over one week with HRV samples that would give an insight
C12_Witness ==
    /\ op = "weekly_pattern_report"
    /\ Len(activities) >= 3
    /\ \E i \in 1..Len(activities) :
          IsRunning(activities[i]) /\ Strptime(activities[i].date) # NoDate
    /\ \E i \in 1..Len(activities) :
          IsRunning(activities[i]) /\ Strptime(activities[i].date) = NoDate
    /\ args.weeks = 1
    /\ args.data.hrv_data = HrvThreeLow
    /\ result.insights = <<NotEnoughRuns>>

\* the HRV samples of the call, none when the command passed none
HrvSeries == args.data.hrv_data

\* the samples whose last-night HRV is below 80% of the mean of the samples'
\* last-night values
LowNights ==
    LET n == Len(HrvSeries)
        mean == RDiv(RInt(SumInt([k \in 1..n |-> HrvSeries[k].last_night])),
                     RInt(n))
    IN  {k \in 1..n : RLt(RInt(HrvSeries[k].last_night),
                          RMul(mean, Rat(8, 10)))}

\* the HRV-deficit insights of the result
HrvInsights ==
    SelectSeq(result.insights,
              LAMBDA x : x.text = HrvBelowBaseline(0).text)

\* C24: the HRV-deficit insight is emitted iff the HRV series has at least 3
\* samples and at least 3 of them have a last-night HRV below 80% of the mean
\* of the samples' own last-night values; the count in the message is the
\* number of such days.
C24_HrvDeficitIffThreeLowNights ==
    (op = "weekly_pattern_report" /\ SomeRunInWeeks) =>
        IF Len(HrvSeries) >= 3 /\ Cardinality(LowNights) >= 3
        THEN HrvInsights = <<HrvBelowBaseline(Cardinality(LowNights))>>
        ELSE HrvInsights = <<>>

\* the place of an insight in the order of the sub-analyses: the two of the
\* day of week, the long runs, the sleep, the HRV and the pace drift; 0 for
\* the two strings that report a lack of data
InsightRank(x) ==
    IF x.text = MostOften("", 0).text THEN 1
    ELSE IF x.text = FastestDay("", 0, 0).text THEN 2
    ELSE IF x.text = LongRuns(0).text THEN 3
    ELSE IF x.text = GoodSleep(0).text THEN 4
    ELSE IF x.text = HrvBelowBaseline(0).text THEN 5
    ELSE IF x.text = TrendingSlower.text THEN 6
    ELSE 0

\* C26: weekly_pattern_report returns between 1 and 6 strings: at most two
\* day-of-week insights, then one each for long runs, sleep, HRV and pace
\* drift, in that order, so the cap of 7 removes nothing, and the 'keep
\* training' fallback appears only as the sole element of the result.
C26_AtMostSixInsightsInOrder ==
    op = "weekly_pattern_report" =>
        LET n == Len(result.insights)
        IN  /\ n \in 1..6
            /\ n < MaxInsights
            /\ \A k \in 1..n - 1 :
                  InsightRank(result.insights[k])
                     < InsightRank(result.insights[k + 1])
            /\ \A k \in 1..n :
                  InsightRank(result.insights[k]) = 0 => n = 1
            /\ \A k \in 1..n :
                  result.insights[k] = KeepTraining => n = 1

\* three fast 10-mile runs of one weekday, then three slow runs, with sleep
\* and HRV samples that each give an insight: all six insights, in order
C26_Witness ==
    /\ op = "weekly_pattern_report"
    /\ Len(result.insights) = 6
    /\ [k \in 1..6 |-> InsightRank(result.insights[k])] = <<1, 2, 3, 4, 5, 6>>

\* a run without any pattern: the fallback string alone
KeepTrainingAlone ==
    /\ op = "weekly_pattern_report"
    /\ result.insights = <<KeepTraining>>

---------------------------------------------------------------------------
(* Malformed records.  An activity dictionary may lack a key or hold None   *)
(* under it.  The analyses read the date of a run-type activity either by   *)
(* a["date"], which raises KeyError when the key is absent, or by           *)
(* a.get("date", ""); they read the numbers by float(a.get(key, 0)), which  *)
(* gives 0.0 for an absent key and raises TypeError for None.               *)

\* the value under a key of a dictionary: present, absent, or None
Present(x) == [has |-> "value", value |-> x]
Missing == [has |-> "missing"]
Null == [has |-> "null"]

RawActivity(type, date, distance, duration, avg_hr) ==
    [type |-> type, date |-> date, distance |-> distance,
     duration |-> duration, avg_hr |-> avg_hr]

\* the outcome of a call: the exception raised, or the value returned
NoException == "none"
Raised(exception) == [raised |-> exception, value |-> NoResult]
Returned(v) == [raised |-> NoException, value |-> v]

\* a["date"] of an activity without the key
DateKeyError(a) == a.date.has = "missing"

\* float(a.get(key, 0)) of a None
FloatTypeError(field) == field.has = "null"

\* str(None)[:10] and the default of a.get("date", "")
NoneString == DateStr(0, 0, 0, "None")
EmptyString == DateStr(0, 0, 0, "")

\* the date string an analysis parses
DateRead(field) ==
    IF field.has = "value" THEN field.value
    ELSE IF field.has = "null" THEN NoneString
    ELSE EmptyString

\* float(a.get(key, 0)) where it does not raise
FloatRead(field) == IF field.has = "value" THEN field.value ELSE 0
FloatReadRat(field) == IF field.has = "value" THEN field.value ELSE RInt(0)

\* the activity as the analyses read it where they do not raise
AsRead(a) ==
    Activity(a.type, DateRead(a.date), FloatReadRat(a.distance),
             FloatRead(a.duration), FloatRead(a.avg_hr))

AllAsRead(acts) == [i \in 1..Len(acts) |-> AsRead(acts[i])]

\* analysis.py:20-44  weekly_summary over dictionaries
weekly_summary_raw(acts, weeks, t) ==
    LET monday == CurrentMonday(t)
        InSomeWeek(a) ==
            \E w \in 0..(weeks - 1) :
               InRange(DateRead(a.date), monday - 7 * w, monday - 7 * w + 6)
    IN  IF \E i \in 1..Len(acts) :
              IsRunning(acts[i]) /\ DateKeyError(acts[i])
        THEN Raised("KeyError")
        ELSE IF \E i \in 1..Len(acts) :
                   /\ IsRunning(acts[i])
                   /\ InSomeWeek(acts[i])
                   /\ \/ FloatTypeError(acts[i].distance)
                      \/ FloatTypeError(acts[i].duration)
        THEN Raised("TypeError")
        ELSE Returned(weekly_summary(AllAsRead(acts), weeks, t))

\* analysis.py:84-98  the exception the loop of polarization_analysis raises
\* at one activity
PolarizationError(a, cutoff, t) ==
    IF ~IsRunning(a) THEN NoException
    ELSE IF DateKeyError(a) THEN "KeyError"
    ELSE IF ~InRange(DateRead(a.date), cutoff, t) THEN NoException
    ELSE IF FloatTypeError(a.duration) \/ FloatTypeError(a.avg_hr)
    THEN "TypeError"
    ELSE NoException

\* analysis.py:68-122  polarization_analysis over dictionaries
polarization_analysis_raw(acts, weeks, zone_boundary_hr, t) ==
    LET cutoff == t - 7 * weeks
        failing == {i \in 1..Len(acts) :
                       PolarizationError(acts[i], cutoff, t) # NoException}
    IN  IF failing # {}
        THEN LET first == CHOOSE i \in failing : \A j \in failing : i <= j
             IN  Raised(PolarizationError(acts[first], cutoff, t))
        ELSE Returned(polarization_analysis(AllAsRead(acts), weeks,
                                            zone_boundary_hr, t))

\* coaching.py:128-221  race_readiness over dictionaries
race_readiness_raw(acts, target_date, goal_time_seconds, t) ==
    LET cutoff == t - 56
        InWindow(a) == /\ ParseDate(DateRead(a.date)) # NoDate
                       /\ ParseDate(DateRead(a.date)) >= cutoff
    IN  IF \E i \in 1..Len(acts) :
              IsRunning(acts[i]) /\ DateKeyError(acts[i])
        THEN Raised("KeyError")
        ELSE IF \E i \in 1..Len(acts) :
                   /\ IsRunning(acts[i])
                   /\ InWindow(acts[i])
                   /\ \/ FloatTypeError(acts[i].distance)
                      \/ FloatTypeError(acts[i].duration)
        THEN Raised("TypeError")
        ELSE Returned(race_readiness(AllAsRead(acts), target_date,
                                     goal_time_seconds, t))

\* patterns.py:11-96  weekly_pattern_report over dictionaries
weekly_pattern_report_raw(acts, sleep_data, hrv_data, weeks, t) ==
    LET read == AllAsRead(acts)
        InWindow(a) == /\ Strptime(DateRead(a.date)) # NoDate
                       /\ Strptime(DateRead(a.date)) >= t - 7 * weeks
    IN  IF \E i \in 1..Len(acts) :
              /\ IsRunning(acts[i])
              /\ InWindow(acts[i])
              /\ \/ FloatTypeError(acts[i].distance)
                 \/ FloatTypeError(acts[i].duration)
        THEN Raised("TypeError")
        ELSE Returned(weekly_pattern_report(read, sleep_data, hrv_data,
                                            weeks, t))

\* the number of dictionaries of a list
MaxRawActs == 2

\* the dictionaries of a list: a well-formed run of yesterday, and
\* dictionaries that lack a key, hold None or hold a date that does not parse
RawKinds ==
    << RawActivity(TypeRunning, Present(DaysAgo(1)),
                   Present(MilesToMeters(5, 1)), Present(2400), Present(150)),
       RawActivity(TypeRunning, Missing,
                   Present(MilesToMeters(5, 1)), Present(2400), Present(150)),
       RawActivity(TypeRunning, Null,
                   Present(MilesToMeters(5, 1)), Present(2400), Present(150)),
       RawActivity(TypeRunning, Present(DateStr(2024, 2, 30, "")),
                   Null, Present(2400), Present(150)),
       RawActivity(TypeRunning, Present(DaysAgo(1)),
                   Missing, Present(2400), Present(150)),
       RawActivity(TypeRunning, Present(DaysAgo(1)),
                   Null, Present(2400), Present(150)),
       RawActivity(TypeRunning, Present(DaysAgo(1)),
                   Present(MilesToMeters(5, 1)), Missing, Present(150)),
       RawActivity(TypeRunning, Present(DaysAgo(1)),
                   Present(MilesToMeters(5, 1)), Null, Present(150)),
       RawActivity(TypeRunning, Present(DaysAgo(1)),
                   Present(MilesToMeters(5, 1)), Present(2400), Missing),
       RawActivity(TypeRunning, Present(DaysAgo(1)),
                   Present(MilesToMeters(5, 1)), Present(2400), Null),
       RawActivity(TypeCycling, Missing, Null, Null, Null),
       RawActivity(TypeRunning, Present(DaysAgo(70)), Null, Null, Null) >>

InitMalformed ==
    /\ today = RaceToday
    /\ activities = <<>>
    /\ op = "fetch"
    /\ args = NoArgs
    /\ result = NoResult
    /\ requests = <<>>

\* one more dictionary of the list
AddRawActivity ==
    /\ op = "fetch"
    /\ Len(activities) < MaxRawActs
    /\ \E k \in 1..Len(RawKinds) : activities' = Append(activities, RawKinds[k])
    /\ UNCHANGED <<today, op, args, result, requests>>

WeeklySummaryRaw ==
    /\ op = "fetch"
    /\ \E w \in 1..2 :
          /\ args' = [weeks |-> w]
          /\ result' = weekly_summary_raw(activities, w, today)
    /\ op' = "weekly_summary"
    /\ UNCHANGED <<today, activities, requests>>

PolarizationRaw ==
    /\ op = "fetch"
    /\ args' = [weeks |-> 1]
    /\ result' = polarization_analysis_raw(activities, 1,
                                           DEFAULT_ZONE_BOUNDARY, today)
    /\ op' = "polarization_analysis"
    /\ UNCHANGED <<today, activities, requests>>

RaceReadinessRaw ==
    /\ op = "fetch"
    /\ args' = [weeks |-> 8]
    /\ result' = race_readiness_raw(activities, today + 30, None, today)
    /\ op' = "race_readiness"
    /\ UNCHANGED <<today, activities, requests>>

WeeklyPatternReportRaw ==
    /\ op = "fetch"
    /\ args' = [weeks |-> 8]
    /\ result' = weekly_pattern_report_raw(activities, None, None, 8, today)
    /\ op' = "weekly_pattern_report"
    /\ UNCHANGED <<today, activities, requests>>

NextMalformed ==
    \/ AddRawActivity
    \/ WeeklySummaryRaw
    \/ PolarizationRaw
    \/ RaceReadinessRaw
    \/ WeeklyPatternReportRaw

SpecMalformed == InitMalformed /\ [][NextMalformed]_vars

\* C13: for any activity list whose records lack keys or carry malformed
\* values (no date key, a date that does not parse, a missing or None
\* distance, duration or avg_hr), weekly_summary, polarization_analysis,
\* race_readiness and weekly_pattern_report return a result rather than
\* raising.
C13_NeverRaises ==
    op \in {"weekly_summary", "polarization_analysis", "race_readiness",
            "weekly_pattern_report"} =>
        result.raised = NoException

---------------------------------------------------------------------------
(* The Garmin client (garmin_client.py) and the activities command of the   *)
(* CLI (cli.py:86-137).  The client is constructed, which authenticates    *)
(* through garth.resume, and then asked for the activities of the trailing *)
(* days, which issues one search request.  Of a normalized activity the    *)
(* model keeps type, date, distance, duration and avg_hr.                  *)

\* garmin_client.py:19-24  the exception classes and their bases
ExceptionBases ==
    [GarminAuthenticationError |->
         {"GarminAuthenticationError", "GarminClientError", "RuntimeError"},
     GarminClientError |-> {"GarminClientError", "RuntimeError"},
     ValueError |-> {"ValueError"}]

\* isinstance(exc, cls) for an exception of class `raised`
IsInstance(raised, cls) ==
    raised \in DOMAIN ExceptionBases /\ cls \in ExceptionBases[raised]

\* the outcome of a client call: the exception with its message, or the value
ClientRaised(exception, message) ==
    [raised |-> exception, message |-> message, value |-> NoResult]
ClientReturned(v) == [raised |-> NoException, message |-> "", value |-> v]

\* the requests issued through garth
ResumeRequest == "garth.resume"
ActivitySearchRequest == "garth.connectapi activity search"

\* the messages of the exceptions, the detail of the cause left as {exc}
\* (the source quotes the command uvx garth login in backquotes)
AuthenticationMessage ==
    "Unable to authenticate with Garmin Connect. Run 'uvx garth login' or set GARTH_TOKEN. Details: {exc}"
FetchFailedMessage == "Failed to fetch activities: {exc}"
NotAListMessage == "Garmin activity response was not a list."
DaysMessage == "days must be a positive integer"
StrptimeMessage == "time data does not match format '%Y-%m-%d'"

\* mutant: the failure of garth.resume surfaces as a generic client error
AuthenticationFailure_Generic ==
    ClientRaised("GarminClientError", AuthenticationMessage)

\* garmin_client.py:45-50  what _authenticate raises when garth.resume fails
AuthenticationFailure ==
    ClientRaised("GarminAuthenticationError", AuthenticationMessage)

\* mutant: only negative day counts are rejected
DaysRejected_Negative(days) == days < 0

\* garmin_client.py:54  if days <= 0
DaysRejected(days) == days <= 0

\* an item of the upstream response: a dictionary or something else
Payload(startTimeLocal, typeKey, distance, duration, averageHR) ==
    [is_dict |-> TRUE, startTimeLocal |-> startTimeLocal, typeKey |-> typeKey,
     distance |-> distance, duration |-> duration, averageHR |-> averageHR]
NotADict == [is_dict |-> FALSE]

\* garmin_client.py:209-230  _normalize_activity, None when the start time
\* is no string of ten characters or more
NormalizeActivity(activity) ==
    IF activity.startTimeLocal.has # "value"
    THEN None
    ELSE Some(Activity(activity.typeKey,
                       [activity.startTimeLocal.value EXCEPT !.rest = ""],
                       activity.distance, activity.duration,
                       activity.averageHR))

\* garmin_client.py:71-76  the items of the response that are normalized
Normalized(response) ==
    LET Kept(item) == item.is_dict /\ NormalizeActivity(item) # None
        kept == SelectSeq(response, Kept)
    IN  [i \in 1..Len(kept) |-> NormalizeActivity(kept[i])[1]]

\* the items an upstream response is made of
MaxResponseItems == 2

PayloadKinds ==
    << Payload(Present([DaysAgo(0) EXCEPT !.rest = "T07:00:00"]), TypeRunning,
               MilesToMeters(5, 1), 2400, 150),
       Payload(Present([DaysAgo(10) EXCEPT !.rest = " 18:30:00"]), TypeCycling,
               MilesToMeters(25, 1), 5400, 120),
       Payload(Missing, TypeRunning, MilesToMeters(5, 1), 2400, 150),
       Payload(Present(DateStr(2024, 2, 30, "T07:00:00")), TypeRunning,
               MilesToMeters(5, 1), 2400, 150),
       NotADict >>

\* what the upstream does with the search request: it fails, answers
\* something that is no list, or answers a list of items, each given by its
\* index in PayloadKinds
NoResponse == [kind |-> "none", items |-> <<>>]
Responses ==
    {[kind |-> "error", items |-> <<>>], [kind |-> "not a list", items |-> <<>>]}
    \cup { [kind |-> "list", items |-> f] :
             f \in UNION {[1..m -> 1..Len(PayloadKinds)] :
                             m \in 0..MaxResponseItems} }

\* the items of a response
ResponseItems(response) ==
    [i \in 1..Len(response.items) |-> PayloadKinds[response.items[i]]]

\* garmin_client.py:68,77-78  cutoff = date.today() - timedelta(days=days);
\* the normalized activities dated on or after the cutoff are kept, in the
\* order of the response
SinceCutoff(normalized, days, t) ==
    LET cutoff == t - days
        Recent(a) == Strptime(a.date) >= cutoff
    IN  SelectSeq(normalized, Recent)

\* garmin_client.py:65-80  get_activities once the response has arrived
FilterResponse(response, days, t) ==
    IF response.kind # "list"
    THEN ClientRaised("GarminClientError", NotAListMessage)
    ELSE LET normalized == Normalized(ResponseItems(response))
         IN  IF \E i \in 1..Len(normalized) :
                   Strptime(normalized[i].date) = NoDate
             THEN ClientRaised("ValueError", StrptimeMessage)
             ELSE ClientReturned(SinceCutoff(normalized, days, t))

\* garmin_client.py:52-80  get_activities(days) against an upstream that
\* answers `response`: the outcome and the requests issued
get_activities(days, response, t) ==
    IF DaysRejected(days)
    THEN [outcome |-> ClientRaised("ValueError", DaysMessage),
          issued |-> <<>>]
    ELSE [outcome |-> IF response.kind = "error"
                      THEN ClientRaised("GarminClientError", FetchFailedMessage)
                      ELSE FilterResponse(response, days, t),
          issued |-> <<ActivitySearchRequest>>]

\* the day counts of a call of the library, and those the CLI lets through
LibraryDays == {-1, 0, 1, 30}
CommandDays == {1, 30}

InitClient ==
    /\ today = RaceToday
    /\ activities = <<>>
    /\ op = "start"
    /\ args = NoArgs
    /\ result = NoResult
    /\ requests = <<>>

\* garmin_client.py:30-50  GarminClient(): garth.resume succeeds or fails
NewClient ==
    /\ op = "start"
    /\ requests' = Append(requests, ResumeRequest)
    /\ \E authenticated \in BOOLEAN :
          IF authenticated
          THEN op' = "client" /\ result' = ClientReturned("GarminClient")
          ELSE op' = "raised" /\ result' = AuthenticationFailure
    /\ UNCHANGED <<today, activities, args>>

\* garmin_client.py:52-80  client.get_activities(days)
GetActivities ==
    /\ op = "client"
    /\ \E days \in LibraryDays, response \in Responses :
          LET call == get_activities(days, response, today)
          IN  /\ args' = [days |-> days,
                          response |-> IF call.issued = <<>> THEN NoResponse
                                       ELSE response]
              /\ result' = call.outcome
              /\ requests' = requests \o call.issued
    /\ op' = "get_activities"
    /\ UNCHANGED <<today, activities>>

\* what the activities command prints for the activities it was given
NoActivitiesFound == "No activities found for the selected period."
ActivitiesTable == "Activities (last {days} days)"

\* cli.py:86-137  the activities command: _get_client, get_activities, print
ActivitiesCommand ==
    /\ op = "start"
    /\ \E authenticated \in BOOLEAN, days \in CommandDays,
          response \in Responses :
          IF ~authenticated
          THEN /\ requests' = Append(requests, ResumeRequest)
               /\ args' = [days |-> days, response |-> NoResponse]
               /\ result' = [exit_code |-> 1,
                             raised |-> AuthenticationFailure.raised,
                             output |-> AuthenticationFailure.message]
          ELSE LET call == get_activities(days, response, today)
               IN  /\ requests' = Append(requests, ResumeRequest) \o call.issued
                   /\ args' = [days |-> days, response |-> response]
                   /\ result' =
                        IF IsInstance(call.outcome.raised, "GarminClientError")
                        THEN [exit_code |-> 1,
                              raised |-> call.outcome.raised,
                              output |-> call.outcome.message]
                        ELSE IF call.outcome.raised # NoException
                        THEN [exit_code |-> 1,
                              raised |-> call.outcome.raised,
                              output |-> "Traceback"]
                        ELSE [exit_code |-> 0,
                              raised |-> NoException,
                              output |-> IF call.outcome.value = <<>>
                                         THEN NoActivitiesFound
                                         ELSE ActivitiesTable]
    /\ op' = "exit"
    /\ UNCHANGED <<today, activities>>

NextClient == NewClient \/ GetActivities \/ ActivitiesCommand

SpecClient == InitClient /\ [][NextClient]_vars

\* C14: get_activities(days) with days <= 0 is rejected with a validation
\* error (ValueError) before any request is issued to the upstream, and
\* returns no activities.
C14_NonPositiveDaysRejected ==
    (op = "get_activities" /\ args.days <= 0) =>
        /\ result.raised = "ValueError"
        /\ result.message = DaysMessage
        /\ result.value = NoResult
        /\ requests = <<ResumeRequest>>

\* get_activities(0) was called on an authenticated client and raised
C14_Witness ==
    /\ op = "get_activities"
    /\ args.days = 0
    /\ result.raised = "ValueError"
    /\ ActivitySearchRequest \notin {requests[i] : i \in 1..Len(requests)}

\* C15: when authentication fails while the client is constructed, a
\* GarminAuthenticationError is raised, a kind that a generic
\* GarminClientError request failure is not an instance of; garth.resume was
\* tried once, no data request is issued, and the CLI command prints the
\* message and terminates with exit code 1.
C15_AuthenticationFailureIsTerminal ==
    /\ op = "raised" =>
          /\ result.raised = "GarminAuthenticationError"
          /\ IsInstance(result.raised, "GarminClientError")
          /\ ~IsInstance("GarminClientError", "GarminAuthenticationError")
          /\ requests = <<ResumeRequest>>
    /\ (op = "exit" /\ args.response = NoResponse) =>
          /\ result.raised = "GarminAuthenticationError"
          /\ result.exit_code = 1
          /\ result.output = AuthenticationMessage
          /\ requests = <<ResumeRequest>>
    /\ (op \in {"get_activities", "exit"} /\ args.response.kind = "error") =>
          /\ result.raised = "GarminClientError"
          /\ ~IsInstance(result.raised, "GarminAuthenticationError")

\* the activities command ended after a failed authentication
C15_Witness ==
    /\ op = "exit"
    /\ result.raised = "GarminAuthenticationError"
    /\ result.exit_code = 1
    /\ requests = <<ResumeRequest>>

---------------------------------------------------------------------------
(* Repeated calls.  A caller (as the daily-report command, cli.py:430-479) *)
(* holds one activity list and one list of weekly summaries and calls the  *)
(* seven functions on them one after another, in any order, with           *)
(* date.today() fixed.  What a call leaves behind is what it writes to the *)
(* objects the caller holds: the functions keep no module-level state, and *)
(* they build their lists and dictionaries anew (the comprehensions,       *)
(* dict(week), sorted) instead of writing to their arguments.  result is   *)
(* the list of the calls made, each with the value it returned.            *)

\* mutant: training_load_trend annotates the caller's summaries in place
SummariesAfterTrend_InPlace(summaries, annotated) == annotated

\* analysis.py:53  entry = dict(week): the annotations go to a copy, the
\* caller's summaries are as before the call
SummariesAfterTrend(summaries, annotated) == summaries

\* analysis.py:28-31, :84-87, coaching.py:139-144, patterns.py:47-57, :190
\* the activities are only read; the selected runs are new lists, and
\* sorted() leaves its argument in place
ActivitiesAfterCall(acts, selected) == acts

\* the number of calls a caller makes
MaxCalls == 3

\* the number of activities the caller holds
MaxRepeatActs == 2

\* the activity lists a caller holds: the first five kinds of the race
\* response, most recent first
RepeatLists ==
    { [i \in 1..Len(f) |-> RaceKinds[f[i]]] :
         f \in {g \in UNION {[1..m -> 1..5] : m \in 0..MaxRepeatActs} :
                   \A i \in 1..(Len(g) - 1) : g[i] < g[i + 1]} }

\* the scalar arguments of readiness_score and suggest_workout
RepeatReadiness ==
    [sleep_score |-> RInt(80), hrv_last_night |-> RInt(60),
     hrv_weekly_avg |-> RInt(50), body_battery |-> RInt(60),
     recent_load_miles |-> Rat(21, 2), avg_weekly_miles |-> RInt(20)]
RepeatWorkout ==
    [readiness |-> 70, days_since_hard |-> 3, days_until_race |-> None,
     weekly_mileage |-> RInt(20)]

InitRepeat ==
    /\ today = RaceToday
    /\ activities \in RepeatLists
    /\ op = "call"
    /\ args = [given_activities |-> activities,
               given_summaries |-> weekly_summary(activities, 3, today),
               summaries |-> weekly_summary(activities, 3, today)]
    /\ result = <<>>
    /\ requests = <<>>

\* one call: its value joins the list of calls
Called(fn, out) ==
    /\ op = "call"
    /\ Len(result) < MaxCalls
    /\ result' = Append(result, [fn |-> fn, out |-> out])

CallWeeklySummary ==
    /\ Called("weekly_summary", weekly_summary(activities, 3, today))
    /\ activities' = ActivitiesAfterCall(activities, activities)
    /\ UNCHANGED <<today, op, args, requests>>

CallTrainingLoadTrend ==
    LET annotated == training_load_trend(args.summaries)
    IN  /\ Called("training_load_trend", annotated)
        /\ args' = [args EXCEPT
                      !.summaries = SummariesAfterTrend(args.summaries, annotated)]
        /\ UNCHANGED <<today, activities, op, requests>>

CallPolarization ==
    /\ Called("polarization_analysis",
              polarization_analysis(activities, 1, DEFAULT_ZONE_BOUNDARY, today))
    /\ activities' = ActivitiesAfterCall(activities, activities)
    /\ UNCHANGED <<today, op, args, requests>>

CallReadinessScore ==
    /\ Called("readiness_score", readiness_score(RepeatReadiness))
    /\ UNCHANGED <<today, activities, op, args, requests>>

CallSuggestWorkout ==
    /\ Called("suggest_workout", suggest_workout(RepeatWorkout))
    /\ UNCHANGED <<today, activities, op, args, requests>>

CallRaceReadiness ==
    /\ Called("race_readiness", race_readiness(activities, today + 30, None, today))
    /\ activities' = ActivitiesAfterCall(activities, RecentRuns(activities, today))
    /\ UNCHANGED <<today, op, args, requests>>

CallWeeklyPatternReport ==
    /\ Called("weekly_pattern_report",
              weekly_pattern_report(activities, None, None, 8, today))
    /\ activities' = ActivitiesAfterCall(activities,
                                         SortedByDate(GetRuns(activities, 8, today)))
    /\ UNCHANGED <<today, op, args, requests>>

NextRepeat ==
    \/ CallWeeklySummary
    \/ CallTrainingLoadTrend
    \/ CallPolarization
    \/ CallReadinessScore
    \/ CallSuggestWorkout
    \/ CallRaceReadiness
    \/ CallWeeklyPatternReport

SpecRepeat == InitRepeat /\ [][NextRepeat]_vars

---------------------------------------------------------------------------
(* The today and daily-report commands (cli.py:302-340, :429-471): the      *)
(* recovery getters, which degrade to zero defaults, the weekly summaries   *)
(* of the fetched activities, readiness_score, _days_since_hard_effort, the *)
(* days until the race, and suggest_workout.                                *)

\* what Garmin answers to a recovery request: a failure, nothing, or data
Failure == [kind |-> "error", data |-> <<>>]
Nothing == [kind |-> "none", data |-> <<>>]
Data(values) == [kind |-> "data", data |-> values]

\* mutant: a sleep request that fails counts as a full score
get_sleep_DefaultFull(answer) ==
    IF answer.kind = "data" THEN [score |-> answer.data[1]] ELSE [score |-> 100]

\* garmin_client.py:130-144  get_sleep: the score, 0 when the request fails,
\* nothing is returned or the score is absent
get_sleep(answer) ==
    IF answer.kind = "data" THEN [score |-> answer.data[1]] ELSE [score |-> 0]

\* garmin_client.py:146-160  get_hrv: weekly_avg and last_night, 0 by default
get_hrv(answer) ==
    IF answer.kind = "data"
    THEN [weekly_avg |-> answer.data[2], last_night |-> answer.data[1]]
    ELSE [weekly_avg |-> 0, last_night |-> 0]

\* garmin_client.py:162-178  get_body_battery: the last value of the day's
\* list, 0 for an empty list and by default
get_body_battery(answer) ==
    IF answer.kind = "data" /\ answer.data # <<>>
    THEN [current |-> answer.data[Len(answer.data)]]
    ELSE [current |-> 0]

\* mutant: the effort is hard above the threshold only
HardEffort_Above(a, hr_threshold) == a.avg_hr > hr_threshold

\* cli.py:574-575  avg_hr >= hr_threshold
HardEffort(a, hr_threshold) == a.avg_hr >= hr_threshold

\* cli.py:570  sorted(activities, key=lambda x: x.get("date", ""),
\* reverse=True): a stable descending sort on the date string
SortedByDateReverse(acts) ==
    LET n == Len(acts)
        Rank(i) == 1 + Cardinality({j \in 1..n :
                          \/ DateStrLess(acts[i].date, acts[j].date)
                          \/ acts[j].date = acts[i].date /\ j < i})
    IN  [p \in 1..n |-> acts[CHOOSE i \in 1..n : Rank(i) = p]]

\* cli.py:580  the default when no hard effort is found
NoHardEffortDays == 7

\* cli.py:567-580  _days_since_hard_effort(activities, hr_threshold), today = t
DaysSinceHardEffort(acts, hr_threshold, t) ==
    LET sorted == SortedByDateReverse(acts)
        Found(a) == /\ IsRunning(a)
                    /\ HardEffort(a, hr_threshold)
                    /\ Strptime(a.date) # NoDate
        found == SelectSeq(sorted, Found)
    IN  IF found = <<>> THEN NoHardEffortDays
        ELSE t - Strptime(found[1].date)

\* cli.py:315-316, :445-446  current_miles and avg_miles of the summaries
CurrentMiles(summaries) ==
    IF summaries = <<>> THEN RInt(0) ELSE summaries[1].total_miles
AvgMiles(summaries) ==
    IF summaries = <<>> THEN RInt(0)
    ELSE RDiv(RSum([k \in 1..Len(summaries) |-> summaries[k].total_miles]),
              RInt(Len(summaries)))

\* cli.py:546-554  _parse_date_arg: datetime.strptime(date_str, "%Y-%m-%d"),
\* which takes no trailing characters
ParseDateArg(date_str) ==
    IF date_str.rest # "" THEN NoDate ELSE Strptime(date_str)

\* cli.py:309-340, :437-471  what both commands compute from the answers of
\* the recovery requests, the fetched activities and the --race-date option:
\* weeks is 4 for today and 8 for daily-report
Coach(acts, weeks, answers, race_date, t) ==
    LET sleep == get_sleep(answers.sleep)
        hrv == get_hrv(answers.hrv)
        bb == get_body_battery(answers.body_battery)
        summaries == weekly_summary(acts, weeks, t)
        current_miles == CurrentMiles(summaries)
        rs == readiness_score(
                 [sleep_score |-> RInt(sleep.score),
                  hrv_last_night |-> RInt(hrv.last_night),
                  hrv_weekly_avg |-> RInt(hrv.weekly_avg),
                  body_battery |-> RInt(bb.current),
                  recent_load_miles |-> current_miles,
                  avg_weekly_miles |-> AvgMiles(summaries)])
        days_since_hard == DaysSinceHardEffort(acts, DEFAULT_ZONE_BOUNDARY, t)
        days_until_race == IF race_date = None THEN None
                           ELSE Some(ParseDateArg(race_date[1]) - t)
    IN  IF race_date # None /\ ParseDateArg(race_date[1]) = NoDate
        THEN [exit_code |-> 1]
        ELSE [exit_code |-> 0,
              sleep |-> sleep, hrv |-> hrv, body_battery |-> bb,
              readiness |-> rs,
              days_since_hard |-> days_since_hard,
              days_until_race |-> days_until_race,
              workout |-> suggest_workout(
                              [readiness |-> rs.score,
                               days_since_hard |-> days_since_hard,
                               days_until_race |-> days_until_race,
                               weekly_mileage |-> current_miles])]

\* the number of activities of the response
MaxTodayActs == 2

\* the activities of the response: hard runs of yesterday and of ten days
\* ago, a run at the threshold, a run under it, a ride, and a hard run whose
\* date does not parse
TodayKinds ==
    << Activity(TypeRunning, DaysAgo(1), MilesToMeters(5, 1), 2400, 160),
       Activity(TypeRunning, DaysAgo(4), MilesToMeters(11, 1), 6000, 152),
       Activity(TypeRunning, DaysAgo(2), MilesToMeters(7, 1), 4200, 151),
       Activity(TypeCycling, DaysAgo(0), MilesToMeters(25, 1), 5400, 170),
       Activity(TypeRunning, DateStr(2024, 2, 30, ""), MilesToMeters(6, 1),
                3000, 170),
       Activity(TypeTrailRun, [DaysAgo(10) EXCEPT !.rest = "T06:00:00"],
                MilesToMeters(8, 1), 4800, 165) >>

\* the answers to the three recovery requests
RecoveryAnswers ==
    [sleep : {Failure, Data(<<100>>)},
     hrv : {Nothing, Data(<<75, 50>>)},
     body_battery : {Failure, Data(<<>>), Data(<<40, 100>>)}]

\* the --race-date option: absent, yesterday, today, in 4 and in 20 days,
\* and a date that does not parse
RaceDates ==
    {None, Some(DaysAgo(1)), Some(DaysAgo(0)), Some(IsoFormat(RaceToday + 4)),
     Some(IsoFormat(RaceToday + 20)), Some(DateStr(2024, 2, 30, ""))}

InitToday ==
    /\ today = RaceToday
    /\ activities = <<>>
    /\ op = "fetch"
    /\ args = NoArgs
    /\ result = NoResult
    /\ requests = <<>>

\* garmin_client.py:71-78  one more activity of the response
AddTodayActivity ==
    /\ op = "fetch"
    /\ Len(activities) < MaxTodayActs
    /\ \E k \in 1..Len(TodayKinds) :
          activities' = Append(activities, TodayKinds[k])
    /\ UNCHANGED <<today, op, args, result, requests>>

\* cli.py:302-340  the today command
TodayCommand ==
    /\ op = "fetch"
    /\ \E answers \in RecoveryAnswers, race_date \in RaceDates :
          /\ args' = [weeks |-> 4, answers |-> answers, race_date |-> race_date]
          /\ result' = Coach(activities, 4, answers, race_date, today)
    /\ op' = "today"
    /\ UNCHANGED <<today, activities, requests>>

\* cli.py:429-471  the daily-report command
DailyReportCommand ==
    /\ op = "fetch"
    /\ \E answers \in RecoveryAnswers, race_date \in RaceDates :
          /\ args' = [weeks |-> 8, answers |-> answers, race_date |-> race_date]
          /\ result' = Coach(activities, 8, answers, race_date, today)
    /\ op' = "daily-report"
    /\ UNCHANGED <<today, activities, requests>>

NextToday == AddTodayActivity \/ TodayCommand \/ DailyReportCommand

SpecToday == InitToday /\ [][NextToday]_vars

C25_DegradedRecoveryMeansRest ==
    (/\ op \in {"today", "daily-report"}
     /\ result.exit_code = 0
     /\ args.answers.sleep.kind # "data"
     /\ args.answers.hrv.kind # "data"
     /\ args.answers.body_battery.kind = "data" => args.answers.body_battery.data = <<>>)
    => /\ result.sleep.score = 0
       /\ result.hrv.last_night = 0
       /\ result.hrv.weekly_avg = 0
       /\ result.body_battery.current = 0
       /\ result.readiness.score <= 35
       /\ result.workout = Workout("rest", DescRest, 0, "none")

\* all three requests failed, the current week has no miles and the race is
\* in 20 days: the score is the 35 of the neutral HRV and a full fatigue
\* component, and the suggestion is rest
C25_Witness ==
    /\ op = "today"
    /\ result.exit_code = 0
    /\ args.answers = [sleep |-> Failure, hrv |-> Nothing, body_battery |-> Failure]
    /\ args.race_date = Some(IsoFormat(RaceToday + 20))
    /\ Len(activities) = 1
    /\ result.readiness.score = 35
    /\ result.readiness.components.fatigue = RInt(20)
    /\ result.workout.type = "rest"

\* C27: in the today and daily-report commands days_until_race = race_date -
\* today can be zero or negative; for a race date that is today or already
\* past and readiness >= 70 the suggestion is the 20-minute shakeout, and
\* neither tempo nor the default easy run is suggested while that race date
\* is supplied.
C27_PastRaceDateShakeout ==
    (/\ op \in {"today", "daily-report"}
     /\ result.exit_code = 0
     /\ args.race_date # None
     /\ Strptime(args.race_date[1]) <= today)
    => /\ result.days_until_race = Some(Strptime(args.race_date[1]) - today)
       /\ result.days_until_race[1] <= 0
       /\ result.readiness.score >= 70 =>
             result.workout = Workout("shakeout", DescShakeout, 20, "easy")
       /\ result.workout.type # "tempo"
       /\ result.workout.description # DescStandard

\* the race was yesterday, the runner is fresh and the last hard effort is
\* more than 3 days back: the suggestion is the shakeout, not tempo
C27_Witness ==
    /\ op = "daily-report"
    /\ result.exit_code = 0
    /\ args.race_date = Some(DaysAgo(1))
    /\ result.days_until_race = Some(-1)
    /\ result.readiness.score >= 70
    /\ result.days_since_hard >= 3
    /\ result.workout.type = "shakeout"
    /\ result.workout.duration_minutes = 20

---------------------------------------------------------------------------
(* The fetch of each command.  Every command that analyses activities asks  *)
(* get_activities for a number of days and hands the list to functions that *)
(* look at a window of their own; the client keeps the activities dated on  *)
(* or after today - days.  The upstream response holds runs dated a number  *)
(* of days before today, most recent first; the recovery requests of the    *)
(* patterns command fail, so its samples are the zero defaults.             *)

\* mutant: one week less than the weeks analysed
WeeksFetchDays_OneWeekShort(weeks) == weeks * 7 - 7

\* cli.py:238, :284, :409  get_activities(days=weeks * 7 + 7)
WeeksFetchDays(weeks) == weeks * 7 + 7

\* cli.py:313  get_activities(days=56)
TodayFetchDays == 56
\* cli.py:314  weekly_summary(all_activities, weeks=4)
TodayWeeks == 4

\* cli.py:443  get_activities(days=60)
DailyReportFetchDays == 60
\* cli.py:444  weekly_summary(all_activities, weeks=8)
DailyReportWeeks == 8
\* cli.py:474  polarization_analysis(all_activities, weeks=4)
DailyReportRecentWeeks == 4

\* cli.py:372  get_activities(days=60)
RacePrepFetchDays == 60

\* garmin_client.py:136,144 and :152,160  the samples of the n days up to t
\* when each request fails or returns nothing
SleepDefaults(n, t) == [i \in 1..n |-> [date |-> IsoFormat(t - (i - 1)), score |-> 0]]
HrvDefaults(n, t) == [i \in 1..n |-> HrvRecord(0, 0)]

\* cli.py:414  range(min(14, weeks * 7))
PatternSampleDays(weeks) == IF weeks * 7 < 14 THEN weeks * 7 ELSE 14

\* cli.py:239  what summary computes from the list all_activities
SummaryAnalyses(all_activities, weeks, t) ==
    <<weekly_summary(all_activities, weeks, t)>>

\* cli.py:285
PolarizationAnalyses(all_activities, weeks, t) ==
    <<polarization_analysis(all_activities, weeks, DEFAULT_ZONE_BOUNDARY, t)>>

\* cli.py:411-418
PatternsAnalyses(all_activities, weeks, t) ==
    <<weekly_pattern_report(all_activities,
                            SleepDefaults(PatternSampleDays(weeks), t),
                            HrvDefaults(PatternSampleDays(weeks), t),
                            weeks, t)>>

\* cli.py:314
TodayAnalyses(all_activities, t) ==
    <<weekly_summary(all_activities, TodayWeeks, t)>>

\* cli.py:444-474  the weekly summaries, the race readiness and the
\* polarization; the pattern report of cli.py:479 reads the same 4 weeks as
\* the polarization and is the one of the patterns command
DailyReportAnalyses(all_activities, t) ==
    <<weekly_summary(all_activities, DailyReportWeeks, t),
      race_readiness(all_activities, t + 30, None, t),
      polarization_analysis(all_activities, DailyReportRecentWeeks,
                            DEFAULT_ZONE_BOUNDARY, t)>>

\* cli.py:373
RacePrepAnalyses(all_activities, t) ==
    <<race_readiness(all_activities, t + 30, None, t)>>

\* the number of activities of the upstream response
MaxFetchActs == 2

\* the largest --weeks of a command
MaxFetchWeeks == 3

\* the ages in days of the runs of the upstream response
FetchAges == {0, 6, 7, 14, 20, 21, 27, 55, 56, 61}

InitFetch ==
    /\ today \in Todays
    /\ activities = <<>>
    /\ op = "upstream"
    /\ args = NoArgs
    /\ result = NoResult
    /\ requests = <<>>

\* one more run in the upstream response, older than the ones before it
AddUpstreamActivity ==
    /\ op = "upstream"
    /\ Len(activities) < MaxFetchActs
    /\ \E age \in FetchAges :
          /\ activities # <<>> =>
                today - Strptime(activities[Len(activities)].date) < age
          /\ activities' = Append(activities,
                Activity(TypeRunning, IsoFormat(today - age),
                         MilesToMeters(5, 1), 2400, 160))
    /\ UNCHANGED <<today, op, args, result, requests>>

\* garmin_client.py:52-80  what get_activities(days) returns of the response
FetchedActivities(days) == SinceCutoff(activities, days, today)

\* what the command has worked on: the day count, the list fetched and the
\* analyses of it
Outcome(days, all_activities, analyses) ==
    [days |-> days, all_activities |-> all_activities, analyses |-> analyses]

\* cli.py:233-240
SummaryCommand ==
    /\ op = "upstream"
    /\ \E weeks \in 1..MaxFetchWeeks :
          LET days == WeeksFetchDays(weeks)
              all_activities == FetchedActivities(days)
          IN  /\ args' = [weeks |-> weeks]
              /\ result' = Outcome(days, all_activities,
                              SummaryAnalyses(all_activities, weeks, today))
    /\ op' = "summary"
    /\ UNCHANGED <<today, activities, requests>>

\* cli.py:279-285
PolarizationCommand ==
    /\ op = "upstream"
    /\ \E weeks \in 1..MaxFetchWeeks :
          LET days == WeeksFetchDays(weeks)
              all_activities == FetchedActivities(days)
          IN  /\ args' = [weeks |-> weeks]
              /\ result' = Outcome(days, all_activities,
                              PolarizationAnalyses(all_activities, weeks, today))
    /\ op' = "polarization"
    /\ UNCHANGED <<today, activities, requests>>

\* cli.py:404-418
PatternsCommand ==
    /\ op = "upstream"
    /\ \E weeks \in 1..MaxFetchWeeks :
          LET days == WeeksFetchDays(weeks)
              all_activities == FetchedActivities(days)
          IN  /\ args' = [weeks |-> weeks]
              /\ result' = Outcome(days, all_activities,
                              PatternsAnalyses(all_activities, weeks, today))
    /\ op' = "patterns"
    /\ UNCHANGED <<today, activities, requests>>

\* cli.py:313-314
TodayFetch ==
    /\ op = "upstream"
    /\ args' = [weeks |-> TodayWeeks]
    /\ LET all_activities == FetchedActivities(TodayFetchDays)
       IN  result' = Outcome(TodayFetchDays, all_activities,
                             TodayAnalyses(all_activities, today))
    /\ op' = "today"
    /\ UNCHANGED <<today, activities, requests>>

\* cli.py:443-474
DailyReportFetch ==
    /\ op = "upstream"
    /\ args' = [weeks |-> DailyReportWeeks]
    /\ LET all_activities == FetchedActivities(DailyReportFetchDays)
       IN  result' = Outcome(DailyReportFetchDays, all_activities,
                             DailyReportAnalyses(all_activities, today))
    /\ op' = "daily-report"
    /\ UNCHANGED <<today, activities, requests>>

\* cli.py:372-373
RacePrepCommand ==
    /\ op = "upstream"
    /\ args' = [weeks |-> 8]
    /\ LET all_activities == FetchedActivities(RacePrepFetchDays)
       IN  result' = Outcome(RacePrepFetchDays, all_activities,
                             RacePrepAnalyses(all_activities, today))
    /\ op' = "race-prep"
    /\ UNCHANGED <<today, activities, requests>>

NextFetch ==
    \/ AddUpstreamActivity
    \/ SummaryCommand
    \/ PolarizationCommand
    \/ PatternsCommand
    \/ TodayFetch
    \/ DailyReportFetch
    \/ RacePrepCommand

SpecFetch == InitFetch /\ [][NextFetch]_vars

\* the earliest date a command's analyses include: the Monday of the oldest
\* summarised week, today minus the weeks of polarization and patterns, and
\* today minus 8 weeks for the race readiness
EarliestAnalysed ==
    CASE op = "summary" -> CurrentMonday(today) - 7 * (args.weeks - 1)
      [] op \in {"polarization", "patterns"} -> today - 7 * args.weeks
      [] op = "today" -> CurrentMonday(today) - 7 * 3
      [] op \in {"daily-report", "race-prep"} -> today - 7 * 8

\* C30: for every weekday of today and every W >= 1, the day count a command
\* passes to get_activities (7W + 7 for summary, polarization and patterns,
\* 56 for today, 60 for daily-report and race-prep) puts the fetch cutoff on
\* or before the earliest date the command's analysis window includes, so no
\* in-window activity is dropped by the client's date filter: the analyses
\* are those of the whole upstream response.
C30_FetchCoversAnalysisWindow ==
    op \in {"summary", "polarization", "patterns", "today", "daily-report",
            "race-prep"} =>
        /\ today - result.days <= EarliestAnalysed
        /\ \A i \in 1..Len(activities) :
              Strptime(activities[i].date) >= EarliestAnalysed =>
                 \E j \in 1..Len(result.all_activities) :
                    result.all_activities[j] = activities[i]
        /\ result.analyses =
              CASE op = "summary" ->
                      SummaryAnalyses(activities, args.weeks, today)
                [] op = "polarization" ->
                      PolarizationAnalyses(activities, args.weeks, today)
                [] op = "patterns" ->
                      PatternsAnalyses(activities, args.weeks, today)
                [] op = "today" -> TodayAnalyses(activities, today)
                [] op = "daily-report" -> DailyReportAnalyses(activities, today)
                [] op = "race-prep" -> RacePrepAnalyses(activities, today)

\* summary --weeks 3 on a Sunday: the run of the Monday of the oldest week,
\* 20 days ago, is fetched and counted, and the run of 55 days ago is not
\* fetched
C30_Witness ==
    /\ op = "summary"
    /\ args.weeks = 3
    /\ Weekday(today) = 6
    /\ Len(activities) = 2
    /\ Strptime(activities[1].date) = today - 20
    /\ Strptime(activities[2].date) = today - 55
    /\ result.all_activities = <<activities[1]>>
    /\ result.analyses[1][3].run_count = 1

===========================================================================
